---------------------------- MODULE Spec2Model ----------------------------
(***************************************************************************)
(* A model of devicectrl-fan-controller: the radio command codec and its   *)
(* cached fan state (src/src/fan.rs), the BLE advertising sequencer        *)
(* (src/src/ble.rs), the keepalive task and the consumer loop of main      *)
(* (src/src/main.rs) and the transport client (src/src/transport.rs).      *)
(***************************************************************************)
EXTENDS Integers, Sequences, FiniteSets, TLC

VARIABLES
    fan_state,   \* CachedFanState: tx_count, power, color_temp, brightness, speed
    emitted,     \* history: the PacketData built by the last codec operation
    last_light,  \* history: the last LightOn / LightOff command built, or 0
    built,       \* history: number of PacketData built so far, mod 256
    last_update, \* history: the AttributeUpdate of the last from_command, or NoUpdate
    prev_state,  \* history: the CachedFanState before the last codec operation
    mutex,       \* AppState.fan_state's Mutex: "free" or the task holding it
    pc,          \* where the keepalive task and the consumer loop stand
    pkts,        \* per task: the packets still to transmit
    adv,         \* per task: the step of advertise_ble_message to take next
    res,         \* per task: the Result of its transmission
    done_n,      \* per task: packets of the current operation fully transmitted
    cur_update,  \* the AttributeUpdate the consumer loop is applying
    hci_log,     \* history: the steps taken by the advertise_ble_message begun last
    air,         \* history: the last two packets whose advertising was enabled
    proc,        \* "running", or "exited" once main has returned
    tpc,                  \* where connect_to_server stands
    expected_recv_nonce,  \* connect_to_server's local, a u32
    send_nonce,           \* connect_to_server's local, a u32
    message,              \* the DeviceBoundSimpleMessage being matched
    command_chan,         \* the updates command_sender.send accepted
    sock_out,             \* what was written to the socket, in order
    client_seed,          \* history: the nonce seed the client sent
    server_seed,          \* history: the nonce seed the server sent
    frames_read,          \* history: frames read in this session
    cur_frame,            \* history: the frame read last
    cur_ok,               \* history: that frame reached the match on its message
    frame_log,            \* history: what was done for that frame, in order
    before,               \* history: send_nonce, command_chan and the number of
                          \* writes when that frame was read
    prev,                 \* history: the frame read before it, and how it ended
    sent,        \* history: the updates command_sender.send accepted, in order
    packet,      \* the PacketData send_packet_to_fan is given
    serialized,  \* its SerializedPacket, once built
    msg_buf,     \* history: encrypt's msg_buf for it, as it was whitened
    encrypted,   \* its EncryptedPacket, once built
    wbuf         \* a buffer under whiten: the input, the seed, the output so far

codec_vars == <<fan_state, emitted, built, last_update, prev_state, last_light>>
main_vars == <<mutex, pc, pkts, adv, res, done_n, cur_update, hci_log, air, proc>>
transport_vars ==
    <<tpc, expected_recv_nonce, send_nonce, message, command_chan, sock_out,
      client_seed, server_seed, frames_read, cur_frame, cur_ok, frame_log,
      before, prev>>
pipe_vars == <<sent>>
packet_vars == <<packet, serialized, msg_buf, encrypted, wbuf>>
vars == <<codec_vars, main_vars, transport_vars, pipe_vars, packet_vars>>

(***************************************************************************)
(* fan.rs: constants                                                       *)
(***************************************************************************)
U8 == 256

BRIGHTNESS_PROPS == [min |-> 0, max |-> 255, step |-> 1]
COLOR_TEMP_PROPS == [min |-> 0, max |-> 255, step |-> 1]
SPEED_PROPS == [min |-> 0, max |-> 6, step |-> 1]

\* enum Cmd, by discriminant
CmdDirection == 21
CmdFanSpeed == 49
CmdLightOn == 16
CmdLightOff == 17
CmdLightBrightnessTemperature == 33
CmdPair == 40

\* main.rs: the CachedFanState main constructs.  main.rs names no speed; the
\* field of fan.rs starts at InitSpeed.
InitTxCount == 16
InitSpeed == 0
InitFanState ==
    [tx_count |-> InitTxCount, power |-> TRUE, color_temp |-> 0,
     brightness |-> 255, speed |-> InitSpeed]

(***************************************************************************)
(* u8 arithmetic                                                           *)
(***************************************************************************)
WrappingAdd1(x) == (x + 1) % U8

\* `as u8` of a u32
AsU8(x) == x % U8

\* `as u8` of a non-negative f32 that is an integer: the cast saturates
F32AsU8(x) == IF x > 255 THEN 255 ELSE x

(***************************************************************************)
(* devicectrl_common: NumericProperties::to_state and the update's         *)
(* apply_to: an absolute or a relative change, resolved against the        *)
(* current value and clamped to the property's range.                      *)
(***************************************************************************)
ToState(props, value) == [props |-> props, value |-> value]

Clamp(x, lo, hi) == IF x < lo THEN lo ELSE IF x > hi THEN hi ELSE x

ApplyTo(op, state) ==
    IF op.type = "Set"
    THEN Clamp(op.v, state.props.min, state.props.max)
    ELSE Clamp(state.value + op.v, state.props.min, state.props.max)

(***************************************************************************)
(* f32 arithmetic, exact.  A positive f32 is <<m, s>>: the value m / 2^s   *)
(* with 2^23 <= m <= 2^24; zero is <<0, 0>>.                               *)
(***************************************************************************)
Pow2Table ==
    <<1, 2, 4, 8, 16, 32, 64, 128, 256, 512, 1024, 2048, 4096, 8192, 16384,
      32768, 65536, 131072, 262144, 524288, 1048576, 2097152, 4194304,
      8388608, 16777216, 33554432, 67108864, 134217728, 268435456,
      536870912, 1073741824>>

Pow2(n) == Pow2Table[n + 1]

RECURSIVE BitLen(_)
BitLen(n) == IF n = 0 THEN 0 ELSE 1 + BitLen(n \div 2)

\* round to nearest, ties to even, of q + r / d  (0 <= r < d)
RoundHalfEven(q, r, d) ==
    IF 2 * r > d \/ (2 * r = d /\ q % 2 = 1) THEN q + 1 ELSE q

\* the scale s with 2^23 <= n * 2^s / d < 2^24
RECURSIVE DivScale(_, _, _)
DivScale(n, d, s) ==
    IF n * Pow2(s) < d * Pow2(23) THEN DivScale(n, d, s + 1) ELSE s

\* n / d in f32, for integers 0 <= n, 0 < d with n / d < 2^24
F32Div(n, d) ==
    IF n = 0 THEN <<0, 0>>
    ELSE LET s == DivScale(n, d, 0)
             num == n * Pow2(s)
         IN  <<RoundHalfEven(num \div d, num % d, d), s>>

\* b * f in f32, for an integer 0 <= b < 2^8 and an f32 f
F32MulInt(b, f) ==
    IF b = 0 \/ f[1] = 0 THEN <<0, 0>>
    ELSE LET mh == f[1] \div 4096
             ml == f[1] % 4096
             c == b * ml
             hi == b * mh + c \div 4096     \* b * m = hi * 4096 + lo
             lo == c % 4096
             sh == BitLen(hi) + 12 - 24     \* bits of b * m beyond 24
             q == hi * Pow2(12 - sh) + lo \div Pow2(sh)
             r == lo % Pow2(sh)
         IN  <<RoundHalfEven(q, r, Pow2(sh)), f[2] - sh>>

\* f.ceil(), as an integer
F32Ceil(f) == IF f[1] = 0 THEN 0 ELSE (f[1] + Pow2(f[2]) - 1) \div Pow2(f[2])

Min(a, b) == IF a < b THEN a ELSE b

(***************************************************************************)
(* fan.rs: PacketData                                                      *)
(***************************************************************************)
PacketNew(tx_count, cmd, args) ==
    [tx_count |-> tx_count, cmd |-> cmd,
     arg0 |-> args[1], arg1 |-> args[2], arg2 |-> args[3]]

\* (brightness * ((255. - temperature).min(127.) / 127.)).ceil() as u8
WarmArg(brightness, temperature) ==
    F32AsU8(F32Ceil(F32MulInt(brightness, F32Div(Min(255 - temperature, 127), 127))))

\* the cold share without .ceil(): the cast truncates
ColdArgTruncated(brightness, temperature) ==
    F32AsU8(F32Div(brightness * Min(temperature, 127), 127)[1]
            \div Pow2(F32Div(brightness * Min(temperature, 127), 127)[2]))

\* (brightness * temperature.min(127.) / 127.).ceil() as u8
ColdArg(brightness, temperature) ==
    F32AsU8(F32Ceil(F32Div(brightness * Min(temperature, 127), 127)))

\* the Brightness block with the power command sent on every update, whether
\* or not the power state changes
BrightnessBlockAlwaysCommand(update, r) ==
    IF update.kind # "Brightness" THEN r
    ELSE LET fs == r.state
             brightness == AsU8(ApplyTo(update.op, ToState(BRIGHTNESS_PROPS, fs.brightness)))
             fs1 == [fs EXCEPT !.brightness = brightness]
         IN  [packets |-> Append(r.packets,
                  PacketNew(fs1.tx_count,
                            IF brightness = 0 THEN CmdLightOff ELSE CmdLightOn,
                            <<0, 0, 0>>)),
              state |-> [fs1 EXCEPT !.power = (brightness # 0),
                                    !.tx_count = WrappingAdd1(fs1.tx_count)]]

\* the Brightness block with the power command emitted but power not updated
BrightnessBlockStalePower(update, r) ==
    IF update.kind # "Brightness" THEN r
    ELSE LET fs == r.state
             brightness == AsU8(ApplyTo(update.op, ToState(BRIGHTNESS_PROPS, fs.brightness)))
             fs1 == [fs EXCEPT !.brightness = brightness]
         IN  IF (brightness # 0) # fs1.power
             THEN [packets |-> Append(r.packets,
                       PacketNew(fs1.tx_count,
                                 IF brightness = 0 THEN CmdLightOff ELSE CmdLightOn,
                                 <<0, 0, 0>>)),
                   state |-> [fs1 EXCEPT !.tx_count = WrappingAdd1(fs1.tx_count)]]
             ELSE [packets |-> r.packets, state |-> fs1]

\* the Brightness block: lines 118-140
BrightnessBlock(update, r) ==
    IF update.kind # "Brightness" THEN r
    ELSE LET fs == r.state
             brightness == AsU8(ApplyTo(update.op, ToState(BRIGHTNESS_PROPS, fs.brightness)))
             fs1 == [fs EXCEPT !.brightness = brightness]
         IN  IF (brightness # 0) # fs1.power
             THEN [packets |-> Append(r.packets,
                       PacketNew(fs1.tx_count,
                                 IF brightness = 0 THEN CmdLightOff ELSE CmdLightOn,
                                 <<0, 0, 0>>)),
                   state |-> [fs1 EXCEPT !.power = (brightness # 0),
                                         !.tx_count = WrappingAdd1(fs1.tx_count)]]
             ELSE [packets |-> r.packets, state |-> fs1]

\* the ColorTemp block: lines 142-145
ColorTempBlock(update, r) ==
    IF update.kind # "ColorTemp" THEN r
    ELSE [packets |-> r.packets,
          state |-> [r.state EXCEPT !.color_temp =
              AsU8(ApplyTo(update.op, ToState(COLOR_TEMP_PROPS, r.state.color_temp)))]]

\* the combined brightness/temperature block: lines 147-165
LightBlock(update, r) ==
    IF update.kind \notin {"Brightness", "ColorTemp"} THEN r
    ELSE LET fs == r.state
         IN  [packets |-> Append(r.packets,
                  PacketNew(fs.tx_count, CmdLightBrightnessTemperature,
                            <<0, WarmArg(fs.brightness, fs.color_temp),
                              ColdArg(fs.brightness, fs.color_temp)>>)),
              state |-> [fs EXCEPT !.tx_count = WrappingAdd1(fs.tx_count)]]

\* the FanDirection block: lines 167-182
DirectionBlock(update, r) ==
    IF update.kind # "FanDirection" THEN r
    ELSE LET fs == r.state
         IN  [packets |-> Append(r.packets,
                  PacketNew(fs.tx_count, CmdDirection,
                            <<IF update.dir = "Forward" THEN 0 ELSE 1, 0, 0>>)),
              state |-> [fs EXCEPT !.tx_count = WrappingAdd1(fs.tx_count)]]

\* the FanSpeed block: lines 184-194.  The resolved speed goes into the packet;
\* fan_state.speed is not assigned.
FanSpeedBlock(update, r) ==
    IF update.kind # "FanSpeed" THEN r
    ELSE LET fs == r.state
             fan_speed == AsU8(ApplyTo(update.op, ToState(SPEED_PROPS, fs.speed)))
         IN  [packets |-> Append(r.packets,
                  PacketNew(fs.tx_count, CmdFanSpeed, <<32, fan_speed, 0>>)),
              state |-> [fs EXCEPT !.tx_count = WrappingAdd1(fs.tx_count)]]

\* PacketData::from_command: the packets and the fan_state it leaves
FromCommand(update, fs) ==
    FanSpeedBlock(update,
        DirectionBlock(update,
            LightBlock(update,
                ColorTempBlock(update,
                    BrightnessBlock(update, [packets |-> <<>>, state |-> fs])))))

\* a keepalive that does not advance tx_count
KeepaliveNoAdvance(fs) ==
    [packets |-> <<PacketNew(fs.tx_count, CmdPair, <<0, 0, 0>>)>>, state |-> fs]

\* send_keepalive_to_fan, lines 335-341: the Pair packet and the fan_state
KeepalivePacket(fs) ==
    [packets |-> <<PacketNew(fs.tx_count, CmdPair, <<0, 0, 0>>)>>,
     state |-> [fs EXCEPT !.tx_count = WrappingAdd1(fs.tx_count)]]


(***************************************************************************)
(* AttributeUpdate values, and a codec operation on the cached state       *)
(***************************************************************************)
Set(v) == [type |-> "Set", v |-> v]
Adjust(d) == [type |-> "Adjust", v |-> d]
Brightness(op) == [kind |-> "Brightness", op |-> op]
ColorTemp(op) == [kind |-> "ColorTemp", op |-> op]
FanSpeed(op) == [kind |-> "FanSpeed", op |-> op]
FanDirection(d) == [kind |-> "FanDirection", dir |-> d]
Power(on) == [kind |-> "Power", on |-> on]
NoUpdate == [kind |-> "None"]
KeepaliveOp == [kind |-> "Keepalive"]

\* the AttributeUpdates the codec is driven with
CodecUpdates ==
    {Brightness(Set(0)), Brightness(Set(255)),
     Brightness(Set(300)), Brightness(Adjust(-100)),
     ColorTemp(Set(32)), ColorTemp(Set(200)), ColorTemp(Adjust(100)),
     FanSpeed(Set(3)), FanSpeed(Set(9)), FanSpeed(Adjust(2)), FanSpeed(Adjust(-1)),
     FanDirection("Forward"), FanDirection("Reverse"),
     Power(FALSE)}

CodecInit ==
    /\ fan_state = InitFanState
    /\ emitted = <<>>
    /\ last_light = 0
    /\ built = 0
    /\ last_update = NoUpdate
    /\ prev_state = InitFanState

\* the last LightOn / LightOff command among packets, or before them
RECURSIVE LastLight(_, _)
LastLight(packets, before_them) ==
    IF packets = <<>> THEN before_them
    ELSE LET p == packets[Len(packets)]
         IN IF p.cmd \in {CmdLightOn, CmdLightOff} THEN p.cmd
            ELSE LastLight(SubSeq(packets, 1, Len(packets) - 1), before_them)

\* what a codec operation leaves: the result r of from_command or of the
\* keepalive's packet construction, for the operation op
CodecApply(op, r) ==
    /\ prev_state' = fan_state
    /\ last_update' = op
    /\ emitted' = r.packets
    /\ last_light' = LastLight(r.packets, last_light)
    /\ built' = (built + Len(r.packets)) % U8
    /\ fan_state' = r.state

\* send_update_to_fan, line 322
ApplyUpdate(update) ==
    \E r \in {FromCommand(update, fan_state)} : CodecApply(update, r)

\* send_keepalive_to_fan, lines 335-341
ApplyKeepalive == CodecApply(KeepaliveOp, KeepalivePacket(fan_state))

(***************************************************************************)
(* main.rs: the keepalive task and the consumer loop, sharing the          *)
(* fan_state mutex and the HCI socket; ble.rs: advertise_ble_message.      *)
(***************************************************************************)
Keepalive == "keepalive"
Consumer == "consumer"
Tasks == {Keepalive, Consumer}

\* the codec operations main may start: keeps tx_count's range small
MaxBuilt == 4

\* advertise_ble_message, step by step: lines 36, 38, 43, 45, 47, 49
AdvSteps == <<"disable", "params", "data", "enable", "sleep", "disable">>
SleepStep == 5
EnableStep == 4
LastStep == 6

\* the AttributeUpdates the server sends main
MainUpdates ==
    {Brightness(Set(0)), Brightness(Set(255)), ColorTemp(Set(32)),
     FanSpeed(Set(3)), Power(FALSE)}

\* what client_channels.incoming.recv() yields
Events ==
    {[type |-> "Connected"], [type |-> "Error"], [type |-> "Other"],
     [type |-> "StateQuery"], [type |-> "Closed"]}
    \cup {[type |-> "UpdateCommand", update |-> u] : u \in MainUpdates}

NoAir == [task |-> "none", tx |-> 0, idx |-> 0]

MainInit ==
    /\ mutex = "free"
    /\ pc = [t \in Tasks |-> IF t = Keepalive THEN "sleep" ELSE "recv"]
    /\ pkts = [t \in Tasks |-> <<>>]
    /\ adv = [t \in Tasks |-> 1]
    /\ res = [t \in Tasks |-> "ok"]
    /\ done_n = [t \in Tasks |-> 0]
    /\ cur_update = NoUpdate
    /\ hci_log = <<>>
    /\ air = <<NoAir, NoAir>>
    /\ proc = "running"

\* keepalive task, line 77: the hourly sleep elapses
KeepaliveWake ==
    /\ proc = "running"
    /\ pc[Keepalive] = "sleep"
    /\ built < MaxBuilt
    /\ pc' = [pc EXCEPT ![Keepalive] = "lock"]
    /\ UNCHANGED <<packet_vars, pipe_vars, codec_vars, transport_vars, mutex, pkts, adv, res, done_n, cur_update, hci_log, air, proc>>

\* a consumer loop that returns from main on TransportEvent::Error
ConsumerRecvErrorFatal(ev) ==
    CASE ev.type = "UpdateCommand" ->
            /\ built < MaxBuilt
            /\ cur_update' = ev.update
            /\ pc' = [pc EXCEPT ![Consumer] = "lock"]
            /\ proc' = proc
      [] ev.type = "StateQuery" ->
            /\ pc' = [pc EXCEPT ![Consumer] = "reply"]
            /\ UNCHANGED <<cur_update, proc>>
      [] ev.type \in {"Closed", "Error"} ->
            /\ proc' = "exited"
            /\ pc' = [pc EXCEPT ![Consumer] = "exited"]
            /\ UNCHANGED cur_update
      [] OTHER ->
            UNCHANGED <<cur_update, pc, proc>>

\* consumer loop, lines 91-121: the match on the event recv() yielded
ConsumerRecvOf(ev) ==
    CASE ev.type = "UpdateCommand" ->
            /\ built < MaxBuilt
            /\ cur_update' = ev.update
            /\ pc' = [pc EXCEPT ![Consumer] = "lock"]
            /\ proc' = proc
      [] ev.type = "StateQuery" ->
            /\ pc' = [pc EXCEPT ![Consumer] = "reply"]
            /\ UNCHANGED <<cur_update, proc>>
      [] ev.type = "Closed" ->
            \* recv() is None: "Failed to receive command", main returns
            /\ proc' = "exited"
            /\ pc' = [pc EXCEPT ![Consumer] = "exited"]
            /\ UNCHANGED cur_update
      [] OTHER ->
            \* Connected, Error and every other event are logged or ignored
            UNCHANGED <<cur_update, pc, proc>>

\* consumer loop, lines 91-121: one event from the transport
ConsumerRecv ==
    /\ proc = "running"
    /\ pc[Consumer] = "recv"
    /\ \E ev \in Events : ConsumerRecvOf(ev)
    /\ UNCHANGED <<packet_vars, pipe_vars, codec_vars, transport_vars, mutex, pkts, adv, res, done_n, hci_log, air>>

\* consumer loop, lines 108-119: the reply to a StateQuery; a failed send
\* ends main
ConsumerReply ==
    /\ proc = "running"
    /\ pc[Consumer] = "reply"
    /\ \E ok \in BOOLEAN :
          IF ok THEN pc' = [pc EXCEPT ![Consumer] = "recv"] /\ proc' = proc
          ELSE proc' = "exited" /\ pc' = [pc EXCEPT ![Consumer] = "exited"]
    /\ UNCHANGED <<packet_vars, pipe_vars, codec_vars, transport_vars, mutex, pkts, adv, res, done_n, cur_update, hci_log, air>>

\* a lock that does not wait for the holder to release
LockNoWait(t) ==
    /\ proc = "running"
    /\ pc[t] = "lock"
    /\ mutex' = t
    /\ pc' = [pc EXCEPT ![t] = "build"]
    /\ UNCHANGED <<packet_vars, pipe_vars, codec_vars, transport_vars, pkts, adv, res, done_n, cur_update, hci_log, air, proc>>

\* app_state.fan_state.lock().await, lines 79 and 105
Lock(t) ==
    /\ proc = "running"
    /\ pc[t] = "lock"
    /\ mutex = "free"
    /\ mutex' = t
    /\ pc' = [pc EXCEPT ![t] = "build"]
    /\ UNCHANGED <<packet_vars, pipe_vars, codec_vars, transport_vars, pkts, adv, res, done_n, cur_update, hci_log, air, proc>>

\* what a task holds once its packets are built
Begin(t, packets) ==
    /\ pkts' = [pkts EXCEPT ![t] = packets]
    /\ adv' = [adv EXCEPT ![t] = 1]
    /\ done_n' = [done_n EXCEPT ![t] = 0]
    /\ res' = [res EXCEPT ![t] = "ok"]
    /\ pc' = [pc EXCEPT ![t] = IF packets = <<>> THEN "release" ELSE "adv"]

\* send_keepalive_to_fan, lines 335-341
KeepaliveBuild ==
    /\ proc = "running"
    /\ pc[Keepalive] = "build"
    /\ \E r \in {KeepalivePacket(fan_state)} :
          CodecApply(KeepaliveOp, r) /\ Begin(Keepalive, r.packets)
    /\ UNCHANGED <<packet_vars, pipe_vars, transport_vars, mutex, cur_update, hci_log, air, proc>>

\* send_update_to_fan, line 322
ConsumerBuild ==
    /\ proc = "running"
    /\ pc[Consumer] = "build"
    /\ \E r \in {FromCommand(cur_update, fan_state)} :
          CodecApply(cur_update, r) /\ Begin(Consumer, r.packets)
    /\ UNCHANGED <<packet_vars, pipe_vars, transport_vars, mutex, cur_update, hci_log, air, proc>>

\* an advertise_ble_message that notes a failed send and carries on with the
\* steps after it
HciSendCarryOn(t) ==
    /\ proc = "running"
    /\ pc[t] = "adv"
    /\ adv[t] # SleepStep
    /\ \E ok \in BOOLEAN :
          /\ hci_log' = IF ok
                         THEN (IF adv[t] = 1 THEN <<>> ELSE hci_log)
                                 \o <<[task |-> t, cmd |-> AdvSteps[adv[t]]]>>
                         ELSE (IF adv[t] = 1 THEN <<>> ELSE hci_log)
          /\ res' = IF ok THEN res ELSE [res EXCEPT ![t] = "err"]
          /\ air' = IF ok /\ adv[t] = EnableStep
                    THEN <<air[2], [task |-> t, tx |-> Head(pkts[t]).tx_count,
                                    idx |-> done_n[t] + 1]>>
                    ELSE air
          /\ IF adv[t] < LastStep
             THEN /\ adv' = [adv EXCEPT ![t] = adv[t] + 1]
                  /\ UNCHANGED <<pkts, done_n, pc>>
             ELSE /\ pkts' = [pkts EXCEPT ![t] = Tail(pkts[t])]
                  /\ done_n' = [done_n EXCEPT ![t] = done_n[t] + 1]
                  /\ adv' = [adv EXCEPT ![t] = 1]
                  /\ pc' = [pc EXCEPT ![t] =
                               IF Len(pkts[t]) = 1 THEN "release" ELSE "adv"]
    /\ UNCHANGED <<packet_vars, pipe_vars, codec_vars, transport_vars, mutex, cur_update, proc>>

\* advertise_ble_message: one hci_socket.send(..)?, of the packet Head(pkts[t])
HciSend(t) ==
    /\ proc = "running"
    /\ pc[t] = "adv"
    /\ adv[t] # SleepStep
    /\ \E ok \in BOOLEAN :
          IF ok
          THEN /\ hci_log' = (IF adv[t] = 1 THEN <<>> ELSE hci_log)
                                \o <<[task |-> t, cmd |-> AdvSteps[adv[t]]]>>
               /\ air' = IF adv[t] = EnableStep
                         THEN <<air[2], [task |-> t, tx |-> Head(pkts[t]).tx_count,
                                         idx |-> done_n[t] + 1]>>
                         ELSE air
               /\ IF adv[t] < LastStep
                  THEN /\ adv' = [adv EXCEPT ![t] = adv[t] + 1]
                       /\ UNCHANGED <<pkts, done_n, pc, res>>
                  ELSE \* the packet is sent: the next one, or Ok(())
                       /\ pkts' = [pkts EXCEPT ![t] = Tail(pkts[t])]
                       /\ done_n' = [done_n EXCEPT ![t] = done_n[t] + 1]
                       /\ adv' = [adv EXCEPT ![t] = 1]
                       /\ pc' = [pc EXCEPT ![t] =
                                    IF Len(pkts[t]) = 1 THEN "release" ELSE "adv"]
                       /\ res' = res
          ELSE \* the send fails: `?` returns the error, no later step is taken
               /\ hci_log' = (IF adv[t] = 1 THEN <<>> ELSE hci_log)
               /\ res' = [res EXCEPT ![t] = "err"]
               /\ pc' = [pc EXCEPT ![t] = "release"]
               /\ UNCHANGED <<air, adv, pkts, done_n>>
    /\ UNCHANGED <<packet_vars, pipe_vars, codec_vars, transport_vars, mutex, cur_update, proc>>

\* advertise_ble_message, line 47: the 500 ms sleep elapses
AdvSleep(t) ==
    /\ proc = "running"
    /\ pc[t] = "adv"
    /\ adv[t] = SleepStep
    /\ adv' = [adv EXCEPT ![t] = adv[t] + 1]
    /\ hci_log' = Append(hci_log, [task |-> t, cmd |-> AdvSteps[adv[t]]])
    /\ UNCHANGED <<packet_vars, pipe_vars, codec_vars, transport_vars, mutex, pc, pkts, res, done_n, cur_update, air, proc>>

\* a release that puts the cached light state back after a failed update
ReleaseRollback(t) ==
    /\ proc = "running"
    /\ pc[t] = "release"
    /\ mutex' = (IF mutex = t THEN "free" ELSE mutex)
    /\ IF t = Keepalive
       THEN pc' = [pc EXCEPT ![t] = "sleep"] /\ proc' = proc
       ELSE IF res[t] = "ok"
            THEN pc' = [pc EXCEPT ![t] = "recv"] /\ proc' = proc
            ELSE pc' = [pc EXCEPT ![t] = "exited"] /\ proc' = "exited"
    /\ fan_state' = IF t = Consumer /\ res[t] = "err"
                    THEN [fan_state EXCEPT !.brightness = prev_state.brightness,
                                           !.power = prev_state.power,
                                           !.color_temp = prev_state.color_temp]
                    ELSE fan_state
    /\ UNCHANGED <<emitted, built, last_update, prev_state, last_light>>
    /\ UNCHANGED <<packet_vars, pipe_vars, transport_vars, pkts, adv, res, done_n, cur_update, hci_log, air>>

\* a release that gives the sequence number of a failed packet back to the
\* cache, as if tx_count advanced only on a successful transmission
ReleaseRewind(t) ==
    /\ proc = "running"
    /\ pc[t] = "release"
    /\ mutex' = (IF mutex = t THEN "free" ELSE mutex)
    /\ IF t = Keepalive
       THEN pc' = [pc EXCEPT ![t] = "sleep"] /\ proc' = proc
       ELSE IF res[t] = "ok"
            THEN pc' = [pc EXCEPT ![t] = "recv"] /\ proc' = proc
            ELSE pc' = [pc EXCEPT ![t] = "exited"] /\ proc' = "exited"
    /\ fan_state' = IF res[t] = "err"
                    THEN [fan_state EXCEPT !.tx_count = Head(pkts[t]).tx_count]
                    ELSE fan_state
    /\ UNCHANGED <<emitted, built, last_update, prev_state, last_light>>
    /\ UNCHANGED <<packet_vars, pipe_vars, transport_vars, pkts, adv, res, done_n, cur_update, hci_log, air>>

\* a release that frees the mutex on the success path only: the guard is
\* kept by the task whose transmission failed
ReleaseLeakOnError(t) ==
    /\ proc = "running"
    /\ pc[t] = "release"
    /\ mutex' = (IF mutex = t /\ res[t] = "ok" THEN "free" ELSE mutex)
    /\ IF t = Keepalive
       THEN pc' = [pc EXCEPT ![t] = "sleep"] /\ proc' = proc
       ELSE IF res[t] = "ok"
            THEN pc' = [pc EXCEPT ![t] = "recv"] /\ proc' = proc
            ELSE pc' = [pc EXCEPT ![t] = "exited"] /\ proc' = "exited"
    /\ UNCHANGED <<packet_vars, pipe_vars, codec_vars, transport_vars, pkts, adv, res, done_n, cur_update, hci_log, air>>

\* a consumer loop that logs a failed update and goes on to the next event
ReleaseKeepGoing(t) ==
    /\ proc = "running"
    /\ pc[t] = "release"
    /\ mutex' = (IF mutex = t THEN "free" ELSE mutex)
    /\ pc' = [pc EXCEPT ![t] = IF t = Keepalive THEN "sleep" ELSE "recv"]
    /\ UNCHANGED <<packet_vars, pipe_vars, codec_vars, transport_vars, pkts, adv, res, done_n, cur_update, hci_log, air, proc>>

\* the MutexGuard is dropped.  Keepalive task, lines 80-84: an error is
\* logged and the loop goes on.  Consumer loop, lines 106-107: `?` returns
\* an error from main.
Release(t) ==
    /\ proc = "running"
    /\ pc[t] = "release"
    /\ mutex' = (IF mutex = t THEN "free" ELSE mutex)
    /\ IF t = Keepalive
       THEN pc' = [pc EXCEPT ![t] = "sleep"] /\ proc' = proc
       ELSE IF res[t] = "ok"
            THEN pc' = [pc EXCEPT ![t] = "recv"] /\ proc' = proc
            ELSE pc' = [pc EXCEPT ![t] = "exited"] /\ proc' = "exited"
    /\ UNCHANGED <<packet_vars, pipe_vars, codec_vars, transport_vars, pkts, adv, res, done_n, cur_update, hci_log, air>>

(***************************************************************************)
(* transport.rs: connect_to_server.  A u32 is a pair <<high, low>> of      *)
(* 16-bit halves.                                                          *)
(***************************************************************************)
Half == 65536

U32WrappingAdd1(n) ==
    IF n[2] + 1 < Half THEN <<n[1], n[2] + 1>>
    ELSE <<(n[1] + 1) % Half, 0>>

\* frames one session reads
MaxFrames == 3

\* OsRng.next_u32(), and the seed the server answers with
ClientSeeds == {<<0, 7>>, <<65535, 65534>>}
ServerSeeds == {<<0, 41>>, <<65535, 65535>>}
Unset == <<0, 0>>

\* config.device_id, and another device's id
DeviceId == "fan"
OtherId == "lamp"

\* DeviceBoundSimpleMessage
UpdateCommand(id, update) == [kind |-> "UpdateCommand", device_id |-> id, update |-> update]
StateQuery(id) == [kind |-> "StateQuery", device_id |-> id]
OtherMessage == [kind |-> "Other"]
NoMessage == [kind |-> "None"]

TransportUpdates == {Brightness(Set(0)), FanSpeed(Set(3))}

Messages ==
    {UpdateCommand(id, u) : id \in {DeviceId, OtherId}, u \in TransportUpdates}
    \cup {StateQuery(id) : id \in {DeviceId, OtherId}}
    \cup {OtherMessage}

\* payload bytes: the encoding of a message, or bytes that decode to none
Encode(m) == [json |-> TRUE, msg |-> m]
Garbage == [json |-> FALSE, msg |-> NoMessage]
Payloads == {Encode(m) : m \in Messages} \cup {Garbage}

\* serde_json::from_slice(&payload)
Decodes(payload) == payload.json
Decode(payload) == payload.msg

\* an ECDSA signature: who signed, and the nonce || length || payload signed
PayloadLen(payload) ==
    IF ~payload.json THEN 1
    ELSE IF payload.msg.kind = "UpdateCommand" THEN 4
    ELSE IF payload.msg.kind = "StateQuery" THEN 3
    ELSE 2

SignedRegion(nonce, len, payload) == <<nonce, len, payload>>
Sign(key, region) == [key |-> key, region |-> region]

\* config.server_public_key.verify(&signed_region, &signature), lines 75-85
Verify(frame) ==
    frame.sig = Sign("server", SignedRegion(frame.nonce, frame.len, frame.payload))

NoFrame == [io |-> FALSE]
Frame(nonce, payload, sig) ==
    [io |-> TRUE, nonce |-> nonce, len |-> PayloadLen(payload),
     payload |-> payload, sig |-> sig]

\* what the network may deliver while nonce e is awaited: the frames with
\* nonce e, with the nonce before it (a frame sent again) or after it (a
\* skipped nonce), any payload, and a signature by the server or by another
\* key, over this nonce and payload or over others
FramesAt(e) ==
    UNION {
        {Frame(n, p, Sign(k, SignedRegion(sn, PayloadLen(sp), sp))) :
            k \in {"server", "other"},
            sn \in {n, e},
            sp \in {p, Encode(UpdateCommand(DeviceId, Brightness(Set(0))))}} :
        n \in {expected_recv_nonce, e, U32WrappingAdd1(e)}, p \in Payloads}

UpdateNotification == [kind |-> "UpdateNotification", device_id |-> DeviceId, reachable |-> TRUE]

TransportInit ==
    /\ tpc = "connect"
    /\ expected_recv_nonce = Unset
    /\ send_nonce = Unset
    /\ message = NoMessage
    /\ command_chan = <<>>
    /\ sock_out = <<>>
    /\ client_seed = Unset
    /\ server_seed = Unset
    /\ frames_read = 0
    /\ cur_frame = NoFrame
    /\ cur_ok = FALSE
    /\ frame_log = <<>>
    /\ before = [nonce |-> Unset, chan |-> <<>>, out |-> 0]
    /\ prev = [frame |-> NoFrame, ok |-> FALSE, ignored |-> FALSE]

\* line 24: TcpStream::connect
Connect ==
    /\ tpc = "connect"
    /\ \E ok \in BOOLEAN : tpc' = IF ok THEN "send_nonce" ELSE "failed"
    /\ UNCHANGED <<packet_vars, pipe_vars, codec_vars, main_vars, expected_recv_nonce, send_nonce, message,
                   command_chan, sock_out, client_seed, server_seed, frames_read,
                   cur_frame, cur_ok, frame_log, before, prev>>

\* a handshake that draws the client's seed only when no nonce is left from
\* an earlier call
SendClientNonceCarried ==
    /\ tpc = "send_nonce"
    /\ \E seed \in ClientSeeds, ok \in BOOLEAN :
          LET nonce == IF expected_recv_nonce = Unset THEN seed
                       ELSE expected_recv_nonce
          IN  /\ expected_recv_nonce' = nonce
              /\ client_seed' = seed
              /\ IF ok
                 THEN /\ sock_out' = Append(sock_out, [kind |-> "nonce", nonce |-> nonce])
                      /\ tpc' = "read_nonce"
                 ELSE sock_out' = sock_out /\ tpc' = "failed"
    /\ UNCHANGED <<packet_vars, pipe_vars, codec_vars, main_vars, send_nonce, message, command_chan,
                   server_seed, frames_read, cur_frame, cur_ok, frame_log,
                   before, prev>>

\* lines 28-32: the client's nonce seed is drawn and written
SendClientNonce ==
    /\ tpc = "send_nonce"
    /\ \E seed \in ClientSeeds, ok \in BOOLEAN :
          /\ expected_recv_nonce' = seed
          /\ client_seed' = seed
          /\ IF ok
             THEN /\ sock_out' = Append(sock_out, [kind |-> "nonce", nonce |-> seed])
                  /\ tpc' = "read_nonce"
             ELSE sock_out' = sock_out /\ tpc' = "failed"
    /\ UNCHANGED <<packet_vars, pipe_vars, codec_vars, main_vars, send_nonce, message, command_chan,
                   server_seed, frames_read, cur_frame, cur_ok, frame_log,
                   before, prev>>

\* lines 34-37: the server's nonce seed is read
ReadServerNonce ==
    /\ tpc = "read_nonce"
    /\ \/ \E seed \in ServerSeeds :
             /\ send_nonce' = seed
             /\ server_seed' = seed
             /\ tpc' = "identify"
       \/ /\ tpc' = "failed"
          /\ UNCHANGED <<send_nonce, server_seed>>
    /\ UNCHANGED <<packet_vars, pipe_vars, codec_vars, main_vars, expected_recv_nonce, message, command_chan,
                   sock_out, client_seed, frames_read, cur_frame, cur_ok, frame_log,
                   before, prev>>

\* send_identify_message, lines 144-160: length and payload, unsigned
SendIdentify ==
    /\ tpc = "identify"
    /\ \E ok \in BOOLEAN :
          IF ok
          THEN /\ sock_out' = Append(sock_out, [kind |-> "identify", device_id |-> DeviceId])
               /\ tpc' = "read"
          ELSE sock_out' = sock_out /\ tpc' = "failed"
    /\ UNCHANGED <<packet_vars, pipe_vars, codec_vars, main_vars, expected_recv_nonce, send_nonce, message,
                   command_chan, client_seed, server_seed, frames_read, cur_frame,
                   cur_ok, frame_log, before, prev>>

\* lines 44-88, for the frame the socket delivers: the nonce is read and
\* checked, then length, payload and signature are read, the signature is
\* verified and the payload decoded
\* the frame handling without the signature verification
ReadFrameNoVerify(frame) ==
    LET expected == U32WrappingAdd1(expected_recv_nonce)
        ok == /\ frame.nonce = expected
              /\ Decodes(frame.payload)
    IN  /\ expected_recv_nonce' = expected
        /\ cur_frame' = frame
        /\ cur_ok' = ok
        /\ message' = IF ok THEN Decode(frame.payload) ELSE NoMessage
        /\ tpc' = IF ok THEN "dispatch" ELSE "failed"

\* the frame handling with a nonce check that lets the sender skip ahead
ReadFrameSkipAhead(frame) ==
    LET expected == U32WrappingAdd1(expected_recv_nonce)
        ok == /\ frame.nonce \in {expected, U32WrappingAdd1(expected)}
              /\ Verify(frame)
              /\ Decodes(frame.payload)
    IN  /\ expected_recv_nonce' = IF ok THEN frame.nonce ELSE expected
        /\ cur_frame' = frame
        /\ cur_ok' = ok
        /\ message' = IF ok THEN Decode(frame.payload) ELSE NoMessage
        /\ tpc' = IF ok THEN "dispatch" ELSE "failed"

ReadFrameOf(frame) ==
    LET expected == U32WrappingAdd1(expected_recv_nonce)
        ok == /\ frame.nonce = expected
              /\ Verify(frame)
              /\ Decodes(frame.payload)
    IN  /\ expected_recv_nonce' = expected
        /\ cur_frame' = frame
        /\ cur_ok' = ok
        /\ message' = IF ok THEN Decode(frame.payload) ELSE NoMessage
        /\ tpc' = IF ok THEN "dispatch" ELSE "failed"

\* one pass of lines 44-88 when the network delivers one of frames, or
\* nothing
ReadFrameFrom(frames) ==
    /\ tpc = "read"
    /\ frames_read < MaxFrames
    /\ \/ \E frame \in frames : ReadFrameOf(frame)
       \/ \* a read fails: the connection is closed or broken
          /\ cur_frame' = NoFrame
          /\ cur_ok' = FALSE
          /\ message' = NoMessage
          /\ tpc' = "failed"
          /\ UNCHANGED expected_recv_nonce
    /\ frames_read' = frames_read + 1
    /\ frame_log' = <<>>
    /\ before' = [nonce |-> send_nonce, chan |-> command_chan, out |-> Len(sock_out)]
    /\ prev' = [frame |-> cur_frame, ok |-> cur_ok,
                ignored |-> cur_ok /\ message.kind = "Other"]
    /\ UNCHANGED <<packet_vars, pipe_vars, codec_vars, main_vars, send_nonce, command_chan, sock_out,
                   client_seed, server_seed>>

ReadFrame == ReadFrameFrom(FramesAt(U32WrappingAdd1(expected_recv_nonce)))

\* make_transport_channels(16): the capacity of the command channel
ChanCapacity == 16

\* a send on the full channel that discards the command being sent
EnqueueDropNewest(chan, update) ==
    IF Len(chan) < ChanCapacity THEN Append(chan, update) ELSE chan

\* the bounded command channel takes a command: when it is full the oldest
\* command not yet received is dropped, silently
Enqueue(chan, update) ==
    IF Len(chan) < ChanCapacity THEN Append(chan, update)
    ELSE Append(Tail(chan), update)

\* lines 91-141: the match on the message, up to the reply
\* the match without the device id checks
DispatchAnyDevice(msg) ==
    CASE msg.kind = "UpdateCommand" ->
            /\ \E has_receiver \in BOOLEAN :
                  /\ command_chan' = IF has_receiver
                                     THEN Enqueue(command_chan, msg.update)
                                     ELSE command_chan
                  /\ sent' = IF has_receiver THEN Append(sent, msg.update) ELSE sent
            /\ frame_log' = Append(frame_log, "forward")
            /\ tpc' = "reply"
      [] msg.kind = "StateQuery" ->
            /\ tpc' = "reply"
            /\ UNCHANGED <<command_chan, frame_log, sent>>
      [] OTHER ->
            /\ tpc' = "read"
            /\ UNCHANGED <<command_chan, frame_log, sent>>

\* the match with an UpdateCommand answered but not forwarded
DispatchReplyOnly(msg) ==
    CASE msg.kind \in {"UpdateCommand", "StateQuery"} ->
            /\ tpc' = IF msg.device_id # DeviceId THEN "failed" ELSE "reply"
            /\ UNCHANGED <<command_chan, frame_log, sent>>
      [] OTHER ->
            /\ tpc' = "read"
            /\ UNCHANGED <<command_chan, frame_log, sent>>

\* the match with an unknown message kind ending the connection
DispatchStrict(msg) ==
    CASE msg.kind = "UpdateCommand" ->
            IF msg.device_id # DeviceId
            THEN tpc' = "failed" /\ UNCHANGED <<command_chan, frame_log, sent>>
            ELSE /\ \E has_receiver \in BOOLEAN :
                       /\ command_chan' = IF has_receiver
                                          THEN Enqueue(command_chan, msg.update)
                                          ELSE command_chan
                       /\ sent' = IF has_receiver THEN Append(sent, msg.update) ELSE sent
                 /\ frame_log' = Append(frame_log, "forward")
                 /\ tpc' = "reply"
      [] msg.kind = "StateQuery" ->
            /\ tpc' = IF msg.device_id # DeviceId THEN "failed" ELSE "reply"
            /\ UNCHANGED <<command_chan, frame_log, sent>>
      [] OTHER ->
            /\ tpc' = "failed"
            /\ UNCHANGED <<command_chan, frame_log, sent>>

DispatchOf(msg) ==
    CASE msg.kind = "UpdateCommand" ->
            IF msg.device_id # DeviceId
            THEN tpc' = "failed" /\ UNCHANGED <<command_chan, frame_log, sent>>
            ELSE \* command_sender.send: an error (no receiver) is logged only
                 /\ \E has_receiver \in BOOLEAN :
                       /\ command_chan' = IF has_receiver
                                          THEN Enqueue(command_chan, msg.update)
                                          ELSE command_chan
                       /\ sent' = IF has_receiver THEN Append(sent, msg.update) ELSE sent
                 /\ frame_log' = Append(frame_log, "forward")
                 /\ tpc' = "reply"
      [] msg.kind = "StateQuery" ->
            /\ tpc' = IF msg.device_id # DeviceId THEN "failed" ELSE "reply"
            /\ UNCHANGED <<command_chan, frame_log, sent>>
      [] OTHER ->
            \* "Unknown command received": logged, the loop goes on
            /\ tpc' = "read"
            /\ UNCHANGED <<command_chan, frame_log, sent>>

Dispatch ==
    /\ tpc = "dispatch"
    /\ DispatchOf(message)
    /\ UNCHANGED <<packet_vars, codec_vars, main_vars, expected_recv_nonce, send_nonce, message,
                   sock_out, client_seed, server_seed, frames_read, cur_frame,
                   cur_ok, before, prev>>

\* a send_signed_message that signs and writes the nonce it was given and
\* increments it afterwards
SendSignedMessageStale ==
    /\ tpc = "reply"
    /\ LET nonce == send_nonce
           payload == Encode(UpdateNotification)
           sig == Sign("device", SignedRegion(nonce, PayloadLen(payload), payload))
       IN  /\ send_nonce' = U32WrappingAdd1(send_nonce)
           /\ \E ok \in BOOLEAN :
                 IF ok
                 THEN /\ sock_out' = Append(sock_out,
                             [kind |-> "signed", nonce |-> nonce, payload |-> payload,
                              sig |-> sig])
                      /\ frame_log' = Append(frame_log, "notify")
                      /\ tpc' = "read"
                 ELSE /\ tpc' = "failed"
                      /\ UNCHANGED <<sock_out, frame_log>>
    /\ UNCHANGED <<packet_vars, pipe_vars, codec_vars, main_vars, expected_recv_nonce, message, command_chan,
                   client_seed, server_seed, frames_read, cur_frame, cur_ok,
                   before, prev>>

\* send_signed_message, lines 162-197, with the UpdateNotification
SendSignedMessage ==
    /\ tpc = "reply"
    /\ LET nonce == U32WrappingAdd1(send_nonce)
           payload == Encode(UpdateNotification)
           sig == Sign("device", SignedRegion(nonce, PayloadLen(payload), payload))
       IN  /\ send_nonce' = nonce
           /\ \E ok \in BOOLEAN :
                 IF ok
                 THEN /\ sock_out' = Append(sock_out,
                             [kind |-> "signed", nonce |-> nonce, payload |-> payload,
                              sig |-> sig])
                      /\ frame_log' = Append(frame_log, "notify")
                      /\ tpc' = "read"
                 ELSE /\ tpc' = "failed"
                      /\ UNCHANGED <<sock_out, frame_log>>
    /\ UNCHANGED <<packet_vars, pipe_vars, codec_vars, main_vars, expected_recv_nonce, message, command_chan,
                   client_seed, server_seed, frames_read, cur_frame, cur_ok,
                   before, prev>>

\* the supervisor of the connection: after the fixed delay it calls
\* connect_to_server again.  The socket and what was read from it are gone;
\* the channel to the consumer loop stays.  prev keeps the last frame of
\* the connection that ended.
Reconnect ==
    /\ tpc = "failed"
    /\ tpc' = "connect"
    /\ message' = NoMessage
    /\ sock_out' = <<>>
    /\ frames_read' = 0
    /\ cur_frame' = NoFrame
    /\ cur_ok' = FALSE
    /\ frame_log' = <<>>
    /\ before' = [nonce |-> Unset, chan |-> command_chan, out |-> 0]
    /\ prev' = [frame |-> cur_frame, ok |-> cur_ok, ignored |-> FALSE]
    /\ UNCHANGED <<packet_vars, pipe_vars, codec_vars, main_vars, expected_recv_nonce, send_nonce,
                   command_chan, client_seed, server_seed>>

TransportNext ==
    \/ Connect
    \/ SendClientNonce
    \/ ReadServerNonce
    \/ SendIdentify
    \/ ReadFrame
    \/ Dispatch
    \/ SendSignedMessage

(***************************************************************************)
(* Specifications                                                          *)
(***************************************************************************)
MainNext ==
    \/ KeepaliveWake
    \/ ConsumerRecv
    \/ ConsumerReply
    \/ \E t \in Tasks : Lock(t)
    \/ KeepaliveBuild
    \/ ConsumerBuild
    \/ \E t \in Tasks : HciSend(t)
    \/ \E t \in Tasks : AdvSleep(t)
    \/ \E t \in Tasks : Release(t)

PipeInit == sent = <<>>

NoPacket == [tx_count |-> 0, cmd |-> 0, arg0 |-> 0, arg1 |-> 0, arg2 |-> 0]

PacketInit ==
    /\ packet = NoPacket
    /\ serialized = <<>>
    /\ msg_buf = <<>>
    /\ encrypted = <<>>
    /\ wbuf = [in |-> <<>>, seed |-> 0, out |-> <<>>, n |-> 0]

Init == CodecInit /\ MainInit /\ TransportInit /\ PipeInit /\ PacketInit

SpecTransport == Init /\ [][TransportNext]_vars

Spec == Init /\ [][MainNext]_vars

\* the tasks as the runtime schedules them: tokio's Mutex hands the lock to
\* its waiters in turn, a task that can take a step does, and every HCI send
\* and sleep comes back.  A build step is enabled exactly while its task is
\* at "build" in the running process, and leaves "build": its weak fairness
\* is written out as that.
SpecFair ==
    /\ Init /\ [][MainNext]_vars
    /\ \A t \in Tasks :
          /\ SF_vars(Lock(t))
          /\ WF_vars(HciSend(t))
          /\ WF_vars(AdvSleep(t))
          /\ WF_vars(Release(t))
          /\ []<>(pc[t] # "build" \/ proc # "running")

(***************************************************************************)
(* The connection and its supervisor: connect_to_server is called again    *)
(* after every failure, while the consumer loop receives the transport's   *)
(* Connected and Error events.  The network delivers every frame but an    *)
(* UpdateCommand the client would forward.                                 *)
(***************************************************************************)
StatusEvents == {[type |-> "Connected"], [type |-> "Error"]}

QuietFramesAt(e) ==
    {f \in FramesAt(e) :
        ~(/\ Decodes(f.payload)
          /\ Decode(f.payload).kind = "UpdateCommand"
          /\ Decode(f.payload).device_id = DeviceId)}

ReadQuietFrame == ReadFrameFrom(QuietFramesAt(U32WrappingAdd1(expected_recv_nonce)))

ConsumerRecvStatus ==
    /\ proc = "running"
    /\ pc[Consumer] = "recv"
    /\ \E ev \in StatusEvents : ConsumerRecvOf(ev)
    /\ UNCHANGED <<packet_vars, pipe_vars, codec_vars, transport_vars, mutex, pkts, adv, res, done_n, hci_log, air>>

ReconnectNext ==
    \/ Connect
    \/ SendClientNonce
    \/ ReadServerNonce
    \/ SendIdentify
    \/ ReadQuietFrame
    \/ Dispatch
    \/ SendSignedMessage
    \/ Reconnect
    \/ ConsumerRecvStatus

\* the supervisor's delay always elapses
SpecReconnect == Init /\ [][ReconnectNext]_vars /\ WF_vars(Reconnect)

(***************************************************************************)
(* The command pipeline: connect_to_server forwards the updates of the     *)
(* server's frames to the command channel while the consumer loop receives *)
(* and applies them.  The consumer loop has not yet received the commands  *)
(* of an earlier connection, one fewer than the channel holds.             *)
(***************************************************************************)
QueuedBefore == [i \in 1..(ChanCapacity - 1) |-> Brightness(Set(10 * i))]

\* the server's frames: in order, signed, an UpdateCommand for this device
UpdateFramesAt(e) ==
    {f \in FramesAt(e) :
        /\ f.nonce = e
        /\ Verify(f)
        /\ Decodes(f.payload)
        /\ Decode(f.payload).kind = "UpdateCommand"
        /\ Decode(f.payload).device_id = DeviceId}

ReadUpdateFrame == ReadFrameFrom(UpdateFramesAt(U32WrappingAdd1(expected_recv_nonce)))

\* consumer loop, lines 91-107: recv() yields the oldest command the
\* channel holds
ConsumerRecvCommand ==
    /\ proc = "running"
    /\ pc[Consumer] = "recv"
    /\ command_chan # <<>>
    /\ ConsumerRecvOf([type |-> "UpdateCommand", update |-> Head(command_chan)])
    /\ command_chan' = Tail(command_chan)
    /\ UNCHANGED <<packet_vars, pipe_vars, codec_vars, mutex, pkts, adv, res,
                   done_n, hci_log, air, tpc, expected_recv_nonce, send_nonce,
                   message, sock_out, client_seed, server_seed, frames_read,
                   cur_frame, cur_ok, frame_log, before, prev>>

PipelineInit ==
    /\ CodecInit
    /\ MainInit
    /\ PacketInit
    /\ sent = QueuedBefore
    /\ command_chan = QueuedBefore
    /\ tpc = "connect"
    /\ expected_recv_nonce = Unset
    /\ send_nonce = Unset
    /\ message = NoMessage
    /\ sock_out = <<>>
    /\ client_seed = Unset
    /\ server_seed = Unset
    /\ frames_read = 0
    /\ cur_frame = NoFrame
    /\ cur_ok = FALSE
    /\ frame_log = <<>>
    /\ before = [nonce |-> Unset, chan |-> QueuedBefore, out |-> 0]
    /\ prev = [frame |-> NoFrame, ok |-> FALSE, ignored |-> FALSE]

PipelineNext ==
    \/ Connect
    \/ SendClientNonce
    \/ ReadServerNonce
    \/ SendIdentify
    \/ ReadUpdateFrame
    \/ Dispatch
    \/ SendSignedMessage
    \/ ConsumerRecvCommand
    \/ Lock(Consumer)
    \/ ConsumerBuild
    \/ HciSend(Consumer)
    \/ AdvSleep(Consumer)
    \/ Release(Consumer)

SpecPipeline == PipelineInit /\ [][PipelineNext]_vars

(***************************************************************************)
(* The codec alone: from_command and the keepalive's packet construction   *)
(* applied, one whole call at a time, to one CachedFanState.               *)
(***************************************************************************)
CodecNext ==
    \/ (\E update \in CodecUpdates : ApplyUpdate(update)) /\ UNCHANGED <<main_vars, transport_vars, pipe_vars, packet_vars>>
    \/ ApplyKeepalive /\ UNCHANGED <<main_vars, transport_vars, pipe_vars, packet_vars>>

SpecCodec == Init /\ [][CodecNext]_vars

(***************************************************************************)
(* The brightness / colour temperature split over every cached brightness  *)
(* and colour temperature: one from_command from each such cache.          *)
(***************************************************************************)
MaxSplitOps == 1

SplitUpdates == {ColorTemp(Set(32)), Brightness(Adjust(0))}

SplitInit ==
    /\ \E b \in 0..255, t \in 0..255 :
          fan_state = [InitFanState EXCEPT !.brightness = b, !.color_temp = t,
                                           !.power = (b # 0)]
    /\ emitted = <<>>
    /\ last_light = 0
    /\ built = 0
    /\ last_update = NoUpdate
    /\ prev_state = fan_state
    /\ mutex = "free"
    /\ pc = [t \in Tasks |-> IF t = Keepalive THEN "sleep" ELSE "recv"]
    /\ pkts = [t \in Tasks |-> <<>>]
    /\ adv = [t \in Tasks |-> 1]
    /\ res = [t \in Tasks |-> "ok"]
    /\ done_n = [t \in Tasks |-> 0]
    /\ cur_update = NoUpdate
    /\ hci_log = <<>>
    /\ air = <<NoAir, NoAir>>
    /\ proc = "running"
    /\ TransportInit
    /\ PipeInit
    /\ PacketInit

SplitNext ==
    \E update \in SplitUpdates :
        /\ built < MaxSplitOps
        /\ ApplyUpdate(update)
        /\ UNCHANGED <<main_vars, transport_vars, pipe_vars, packet_vars>>

SpecSplit == SplitInit /\ [][SplitNext]_vars

(***************************************************************************)
(* Claims about the codec                                                  *)
(***************************************************************************)
CeilDiv(a, b) == (a + b - 1) \div b

LightCmds == {CmdLightOn, CmdLightOff}

\* C1: the tx_count values of the emitted commands are s, s+1, s+2, ... mod
\* 256 in emission order, across updates and keepalives, without gap or
\* repeat, and every emitted command advances the cached tx_count by one.
C1_SequenceMonotonic ==
    /\ fan_state.tx_count = (InitTxCount + built) % U8
    /\ prev_state.tx_count = (InitTxCount + built + U8 - Len(emitted)) % U8
    /\ \A i \in 1..Len(emitted) :
          emitted[i].tx_count = (prev_state.tx_count + i - 1) % U8
    /\ last_update.kind = "Keepalive" => Len(emitted) = 1

C1_Witness ==
    /\ Len(emitted) = 2
    /\ emitted[1].tx_count = 255
    /\ emitted[2].tx_count = 0
    /\ fan_state.tx_count = 1

\* the brightness a Brightness update resolves to
ResolvedBrightness ==
    LET op == last_update.op
        want == IF op.type = "Set" THEN op.v ELSE prev_state.brightness + op.v
    IN  IF want < 0 THEN 0 ELSE IF want > 255 THEN 255 ELSE want

\* C4: a Brightness update stores the resolved brightness; when (brightness
\* # 0) differs from the cached power it emits LightOff / LightOn with
\* arguments [0,0,0] before the combined command and sets power, otherwise
\* it emits no LightOn / LightOff; from {power, 255, 0}, Brightness(set 0)
\* gives LightOff then LightBrightnessTemperature with arg1 = arg2 = 0.
C4_BrightnessPower ==
    last_update.kind = "Brightness" =>
        /\ fan_state.brightness = ResolvedBrightness
        /\ fan_state.brightness \in 0..255
        /\ IF (ResolvedBrightness # 0) # prev_state.power
           THEN /\ Len(emitted) = 2
                /\ emitted[1].cmd =
                      (IF ResolvedBrightness = 0 THEN CmdLightOff ELSE CmdLightOn)
                /\ <<emitted[1].arg0, emitted[1].arg1, emitted[1].arg2>> = <<0, 0, 0>>
                /\ emitted[2].cmd = CmdLightBrightnessTemperature
                /\ fan_state.power = (ResolvedBrightness # 0)
           ELSE /\ \A i \in 1..Len(emitted) : emitted[i].cmd \notin LightCmds
                /\ fan_state.power = prev_state.power
        /\ (prev_state.power /\ prev_state.brightness = 255 /\ prev_state.color_temp = 0
            /\ last_update.op = Set(0)) =>
              /\ Len(emitted) = 2
              /\ emitted[1].cmd = CmdLightOff
              /\ emitted[2].cmd = CmdLightBrightnessTemperature
              /\ emitted[2].arg1 = 0 /\ emitted[2].arg2 = 0
              /\ ~fan_state.power /\ fan_state.brightness = 0

C4_Witness ==
    /\ last_update = Brightness(Set(0))
    /\ prev_state.power /\ prev_state.brightness = 255 /\ prev_state.color_temp = 0
    /\ Len(emitted) = 2
    /\ emitted[1].cmd = CmdLightOff

\* C5: every Brightness or ColorTemp update emits exactly one
\* LightBrightnessTemperature command, last, with arg0 = 0, arg1 =
\* ceil(b * min(255 - t, 127) / 127) and arg2 = ceil(b * min(t, 127) / 127)
\* for the cached b and t after the update; a ColorTemp update emits no
\* LightOn / LightOff and leaves cached brightness and power unchanged.
C5_LightSplit ==
    last_update.kind \in {"Brightness", "ColorTemp"} =>
        LET n == Len(emitted)
            b == fan_state.brightness
            t == fan_state.color_temp
        IN  /\ n >= 1
            /\ emitted[n].cmd = CmdLightBrightnessTemperature
            /\ \A i \in 1..(n - 1) : emitted[i].cmd # CmdLightBrightnessTemperature
            /\ emitted[n].arg0 = 0
            /\ emitted[n].arg1 = CeilDiv(b * Min(255 - t, 127), 127)
            /\ emitted[n].arg2 = CeilDiv(b * Min(t, 127), 127)
            /\ emitted[n].arg1 \in 0..255 /\ emitted[n].arg2 \in 0..255
            /\ last_update.kind = "ColorTemp" =>
                  /\ n = 1
                  /\ fan_state.brightness = prev_state.brightness
                  /\ fan_state.power = prev_state.power

C5_Witness ==
    /\ last_update = ColorTemp(Set(32))
    /\ prev_state.brightness = 128 /\ prev_state.color_temp = 64
    /\ emitted[1].arg1 = 128 /\ emitted[1].arg2 = 33

\* C6: after a FanSpeed update the cached speed is the speed the update
\* resolved to, which is arg1 of the FanSpeed command it emitted.
C6_SpeedStored ==
    last_update.kind = "FanSpeed" =>
        /\ Len(emitted) = 1
        /\ emitted[1].cmd = CmdFanSpeed
        /\ emitted[1].arg0 = 32
        /\ fan_state.speed = emitted[1].arg1


(***************************************************************************)
(* Claims about the keepalive task and the consumer loop                   *)
(***************************************************************************)
Critical == {"build", "adv", "release"}

\* C10: keepalive task and consumer loop never transmit at the same time:
\* each holds the mutex from before it reads or changes the cache until the
\* last radio command of its whole transmission, settle sleeps included, so
\* the HCI commands of two transmissions never interleave and no keepalive
\* packet separates the packets of one update.
C10_SerialTransmission ==
    /\ \A t \in Tasks : pc[t] \in Critical => mutex = t
    /\ Len(hci_log) <= Len(AdvSteps)
    /\ \A i \in 1..Len(hci_log) :
          /\ hci_log[i].task = hci_log[1].task
          /\ i <= Len(AdvSteps) => hci_log[i].cmd = AdvSteps[i]
    /\ (air[2].task = Consumer /\ air[2].idx > 1) =>
          /\ air[1].task = Consumer
          /\ air[1].idx = air[2].idx - 1
          /\ air[2].tx = (air[1].tx + 1) % U8

\* the consumer sleeps in the second packet of an update while the keepalive
\* task waits for the mutex
C10_Witness ==
    /\ pc[Consumer] = "adv" /\ adv[Consumer] = SleepStep /\ done_n[Consumer] = 1
    /\ pc[Keepalive] = "lock"
    /\ mutex = Consumer
    /\ air[2].idx = 2

\* the steps advertise_ble_message has taken, by name
AdvLog == [i \in 1..Len(hci_log) |-> hci_log[i].cmd]

\* C11: for each packet advertise_ble_message takes its steps in the order
\* disable, parameters, data, enable, sleep, disable; a failed send returns
\* the error with none of the later steps taken, so a failure of the last
\* send leaves advertising enabled by this call.
C11_AdvertiseOrder ==
    \A t \in Tasks :
        /\ pc[t] = "adv" =>
              /\ res[t] = "ok"
              /\ adv[t] > 1 => AdvLog = SubSeq(AdvSteps, 1, adv[t] - 1)
              /\ (adv[t] = 1 /\ done_n[t] > 0) => AdvLog = AdvSteps
        /\ (pc[t] = "release" /\ res[t] = "err") =>
              /\ AdvLog = SubSeq(AdvSteps, 1, adv[t] - 1)
              /\ adv[t] # SleepStep
              /\ pkts[t] # <<>>
              /\ adv[t] = LastStep =>
                    /\ AdvLog[Len(AdvLog)] = "sleep"
                    /\ AdvLog[Len(AdvLog) - 1] = "enable"
        /\ (pc[t] = "release" /\ res[t] = "ok" /\ done_n[t] > 0) =>
              /\ AdvLog = AdvSteps
              /\ pkts[t] = <<>>

\* the last send of an update's second packet fails, after its enable
C11_Witness ==
    /\ pc[Consumer] = "release" /\ res[Consumer] = "err"
    /\ adv[Consumer] = LastStep
    /\ done_n[Consumer] = 1
    /\ AdvLog = <<"disable", "params", "data", "enable", "sleep">>

\* the colour temperature a ColorTemp update resolves to
ResolvedColorTemp ==
    LET op == last_update.op
        want == IF op.type = "Set" THEN op.v ELSE prev_state.color_temp + op.v
    IN  IF want < 0 THEN 0 ELSE IF want > 255 THEN 255 ELSE want

\* the packets whose advertising was enabled last
OnAir == {air[1], air[2]}

\* C12: when a radio send fails in an update, send_update_to_fan returns
\* the error: the failing packet is not sent again, the packets after it
\* are never transmitted, and the cache keeps the brightness, power, colour
\* temperature and tx_count the update wrote.
C12_FailedUpdateAbandoned ==
    res[Consumer] = "err" =>
        /\ pc[Consumer] \in {"release", "exited"}
        /\ last_update = cur_update
        /\ pkts[Consumer] = SubSeq(emitted, done_n[Consumer] + 1, Len(emitted))
        /\ pkts[Consumer] # <<>>
        /\ AdvLog = SubSeq(AdvSteps, 1, adv[Consumer] - 1)
        /\ \A i \in 2..Len(pkts[Consumer]) :
              \A a \in OnAir :
                  a.task = Consumer => a.tx # pkts[Consumer][i].tx_count
        /\ \A a \in OnAir :
              (a.task = Consumer /\ a.tx = Head(pkts[Consumer]).tx_count) =>
                  adv[Consumer] = LastStep
        /\ fan_state.tx_count = (prev_state.tx_count + Len(emitted)) % U8
        /\ cur_update.kind = "Brightness" =>
              /\ fan_state.brightness = ResolvedBrightness
              /\ fan_state.power = (ResolvedBrightness # 0)
              /\ fan_state.color_temp = prev_state.color_temp
        /\ cur_update.kind = "ColorTemp" =>
              /\ fan_state.color_temp = ResolvedColorTemp
              /\ fan_state.brightness = prev_state.brightness
              /\ fan_state.power = prev_state.power

\* the first packet of a two-packet update fails; main has returned
C12_Witness ==
    /\ res[Consumer] = "err" /\ pc[Consumer] = "exited"
    /\ cur_update = Brightness(Set(0))
    /\ Len(emitted) = 2 /\ done_n[Consumer] = 0 /\ Len(pkts[Consumer]) = 2
    /\ prev_state.power /\ prev_state.brightness = 255
    /\ ~fan_state.power /\ fan_state.brightness = 0

\* C13: a radio send failure while an UpdateCommand is applied ends the
\* consumer loop and the process: main returns the error, the update is
\* not tried again, and no later update or keepalive touches the cache.
C13_RadioFailureFatal ==
    /\ (res[Consumer] = "err" /\ pc[Consumer] # "release") =>
          /\ proc = "exited"
          /\ pc[Consumer] = "exited"
          /\ mutex = "free"
    /\ res[Consumer] = "err" =>
          /\ last_update = cur_update
          /\ pc[Keepalive] \in {"sleep", "lock"}
    /\ proc = "exited" => ~ENABLED MainNext

\* main has returned the error while the keepalive task waited for the mutex
C13_Witness ==
    /\ proc = "exited"
    /\ res[Consumer] = "err"
    /\ pc[Keepalive] = "lock"
    /\ mutex = "free"
    /\ built < MaxBuilt


(***************************************************************************)
(* Claims about the transport client                                       *)
(***************************************************************************)
\* seed + k mod 2^32
U32AddK(seed, k) ==
    <<(seed[1] + (seed[2] + k) \div Half) % Half, (seed[2] + k) % Half>>

\* the frame carries the server's signature over its own nonce, length and
\* payload
Authentic(frame) ==
    /\ frame.io
    /\ frame.sig.key = "server"
    /\ frame.sig.region = <<frame.nonce, frame.len, frame.payload>>

\* the frame carries the server's signature made for its nonce and another
\* payload
Tampered(frame) ==
    /\ frame.io
    /\ frame.sig.key = "server"
    /\ frame.sig.region[1] = frame.nonce
    /\ frame.sig.region[3] # frame.payload

Streaming == {"read", "dispatch", "reply"}

\* C2: nothing is forwarded and no reply is written for a frame unless its
\* nonce check and its signature verification over nonce || length ||
\* payload succeeded; a frame with a tampered payload under an unchanged
\* signature ends the connection, nothing forwarded from it or after it.
C2_FailClosed ==
    /\ (tpc \in {"dispatch", "reply"} \/ frame_log # <<>> \/ message # NoMessage) =>
          /\ cur_frame.io
          /\ cur_frame.nonce = U32AddK(client_seed, frames_read)
          /\ Authentic(cur_frame)
    /\ (frames_read > 0 /\ (command_chan # before.chan \/ Len(sock_out) # before.out)) =>
          Authentic(cur_frame)
    /\ Tampered(cur_frame) =>
          /\ tpc = "failed"
          /\ frame_log = <<>>
          /\ command_chan = before.chan
          /\ Len(sock_out) = before.out
    /\ tpc = "failed" => ~ENABLED (ReadFrame \/ Dispatch \/ SendSignedMessage)

C2_Witness ==
    /\ Tampered(cur_frame)
    /\ cur_frame.nonce = U32AddK(client_seed, frames_read)
    /\ frames_read = 2
    /\ tpc = "failed"
    /\ Len(command_chan) = 1

\* C3: the k-th inbound frame is accepted only with nonce (client seed + k)
\* mod 2^32; a frame with a skipped nonce and a frame accepted before and
\* sent again both end the connection, neither forwarded nor skipped over.
C3_StrictNonce ==
    /\ cur_ok => cur_frame.nonce = U32AddK(client_seed, frames_read)
    /\ tpc \in Streaming => expected_recv_nonce = U32AddK(client_seed, frames_read)
    /\ (cur_frame.io /\ cur_frame.nonce = U32AddK(client_seed, frames_read + 1)) =>
          /\ tpc = "failed" /\ ~cur_ok
          /\ frame_log = <<>> /\ command_chan = before.chan
    /\ (prev.ok /\ cur_frame = prev.frame) =>
          /\ tpc = "failed" /\ ~cur_ok
          /\ frame_log = <<>> /\ command_chan = before.chan

\* a frame accepted before is sent again, at the wrap of the nonce
C3_Witness ==
    /\ prev.ok /\ cur_frame = prev.frame
    /\ tpc = "failed"
    /\ cur_frame.nonce = <<0, 0>>
    /\ frames_read = 3

\* the frame passed validation and names another device
ForOtherDevice ==
    /\ cur_ok
    /\ message.kind \in {"UpdateCommand", "StateQuery"}
    /\ message.device_id # DeviceId

\* C7: a validated UpdateCommand or StateQuery for another device id ends
\* the connection; for that frame nothing is forwarded, no
\* UpdateNotification is sent and the outbound nonce does not change.
C7_DeviceIdMismatch ==
    (ForOtherDevice /\ tpc # "dispatch") =>
        /\ tpc = "failed"
        /\ frame_log = <<>>
        /\ command_chan = before.chan
        /\ Len(sock_out) = before.out
        /\ send_nonce = before.nonce

C7_Witness ==
    /\ ForOtherDevice
    /\ message.kind = "UpdateCommand"
    /\ tpc = "failed"
    /\ frames_read = 2

\* the frame passed validation and names this device
ForThisDevice(kind) ==
    /\ cur_ok
    /\ message.kind = kind
    /\ message.device_id = DeviceId

\* sock_out since the frame was read
Written == SubSeq(sock_out, before.out + 1, Len(sock_out))

SignedNotification(w) ==
    /\ w.kind = "signed"
    /\ w.payload = Encode(UpdateNotification)
    /\ w.sig = [key |-> "device", region |-> <<w.nonce, PayloadLen(w.payload), w.payload>>]

\* C8: for an accepted frame with this device's id, an UpdateCommand has its
\* update handed to the command channel and then exactly one signed
\* UpdateNotification written; a StateQuery has exactly one signed
\* UpdateNotification written and nothing forwarded; no UpdateNotification
\* is written before the update of its frame was handed to the channel.
C8_ForwardThenNotify ==
    /\ frame_log \in {<<>>, <<"forward">>, <<"forward", "notify">>, <<"notify">>}
    /\ "forward" \in {frame_log[i] : i \in 1..Len(frame_log)} =>
          ForThisDevice("UpdateCommand")
    /\ "notify" \in {frame_log[i] : i \in 1..Len(frame_log)} =>
          /\ Len(Written) = 1 /\ SignedNotification(Written[1])
          /\ IF message.kind = "UpdateCommand" THEN frame_log = <<"forward", "notify">>
             ELSE ForThisDevice("StateQuery") /\ frame_log = <<"notify">>
    /\ (frames_read > 0 /\ "notify" \notin {frame_log[i] : i \in 1..Len(frame_log)}) =>
          Written = <<>>
    /\ (ForThisDevice("UpdateCommand") /\ tpc = "reply") => frame_log = <<"forward">>
    /\ (ForThisDevice("UpdateCommand") /\ tpc = "read") => frame_log = <<"forward", "notify">>
    /\ (ForThisDevice("StateQuery") /\ tpc = "read") => frame_log = <<"notify">>
    /\ ForThisDevice("StateQuery") => command_chan = before.chan
    /\ Len(command_chan) <= Len(before.chan) + 1

C8_Witness ==
    /\ ForThisDevice("UpdateCommand")
    /\ frame_log = <<"forward", "notify">>
    /\ command_chan = Append(before.chan, message.update)
    /\ Len(sock_out) = 4

\* C9: a validated frame of another message kind is ignored and the
\* connection goes on: nothing forwarded, nothing sent, the outbound nonce
\* unchanged, the expected inbound nonce advanced by one, and the next
\* frame with the following nonce is accepted.
C9_UnknownKindIgnored ==
    /\ (cur_ok /\ message.kind = "Other" /\ tpc # "dispatch") =>
          /\ tpc = "read"
          /\ frame_log = <<>>
          /\ command_chan = before.chan
          /\ Len(sock_out) = before.out
          /\ send_nonce = before.nonce
          /\ expected_recv_nonce = U32AddK(client_seed, frames_read)
          /\ expected_recv_nonce = cur_frame.nonce
    /\ (prev.ignored /\ Authentic(cur_frame) /\ Decodes(cur_frame.payload)
        /\ cur_frame.nonce = U32AddK(prev.frame.nonce, 1)) => cur_ok

C9_Witness ==
    /\ prev.ignored
    /\ cur_ok
    /\ cur_frame.nonce = U32AddK(prev.frame.nonce, 1)
    /\ tpc = "reply"

\* how the connection that ended last failed, after its handshake
FailedOnMismatch ==
    /\ prev.ok
    /\ Decode(prev.frame.payload).kind \in {"UpdateCommand", "StateQuery"}
    /\ Decode(prev.frame.payload).device_id # DeviceId

\* C14: a transport error ends only its connection: the process and the
\* consumer loop keep running, and after every failure, however many came
\* before, connect_to_server is eventually called again and starts at the
\* connect with a new socket.
C14_TransportErrorsRetried ==
    /\ [](proc = "running" /\ pc[Consumer] = "recv")
    /\ [](tpc = "failed" => ENABLED Reconnect)
    /\ (tpc = "failed") ~> (tpc = "connect" /\ sock_out = <<>> /\ frames_read = 0)
    /\ [][tpc = "failed" => tpc' = "connect"]_vars

\* a second failure in a row: the connection before ended on a device id
\* mismatch, and the connect that followed it failed
C14_Witness ==
    /\ tpc = "failed"
    /\ FailedOnMismatch
    /\ frames_read = 0 /\ sock_out = <<>>
    /\ proc = "running" /\ pc[Consumer] = "recv"

\* the signed messages written to the socket, in order
IsSigned(w) == w.kind = "signed"
SignedOut == SelectSeq(sock_out, IsSigned)

\* C16: the n-th signed message of a session carries the nonce (server's
\* seed + n) mod 2^32, and its signature covers that nonce; send_nonce is
\* set when the server's seed is read and changes only in
\* send_signed_message, by one, before the message is signed and written.
C16_OutboundNonce ==
    /\ [](/\ tpc \in {"identify", "read", "dispatch", "reply"} =>
                send_nonce = U32AddK(server_seed, Len(SignedOut))
          /\ tpc = "failed" =>
                send_nonce \in {U32AddK(server_seed, Len(SignedOut)),
                                U32AddK(server_seed, Len(SignedOut) + 1)}
          /\ \A i \in 1..Len(SignedOut) :
                /\ SignedOut[i].nonce = U32AddK(server_seed, i)
                /\ SignedOut[i].sig =
                      Sign("device", SignedRegion(SignedOut[i].nonce,
                                                  PayloadLen(SignedOut[i].payload),
                                                  SignedOut[i].payload)))
    /\ [][send_nonce' # send_nonce =>
             \/ tpc = "read_nonce" /\ send_nonce' = server_seed'
             \/ tpc = "reply" /\ send_nonce' = U32WrappingAdd1(send_nonce)]_vars
    /\ [][Len(sock_out') > Len(sock_out) /\ tpc = "reply" =>
             /\ send_nonce' = U32WrappingAdd1(send_nonce)
             /\ sock_out'[Len(sock_out')].nonce = send_nonce']_vars

\* the third signed message of a session whose server seed is 2^32 - 1
C16_Witness ==
    /\ Len(SignedOut) = 3
    /\ server_seed = <<65535, 65535>>
    /\ SignedOut[1].nonce = <<0, 0>>
    /\ SignedOut[3].nonce = <<0, 2>>
    /\ send_nonce = <<0, 2>>

\* what the handshake writes: the client's seed, then the Identify payload,
\* which carries no signature
NonceWritten == [kind |-> "nonce", nonce |-> client_seed]
IdentifyWritten == [kind |-> "identify", device_id |-> DeviceId]

\* C17: every call of connect_to_server writes a newly drawn seed first,
\* then reads the server's seed, then writes the unsigned Identify, all
\* before it reads a frame; expected_recv_nonce and send_nonce come from
\* the seeds of this call alone, whatever an earlier call left.
C17_FreshHandshake ==
    /\ tpc \in {"connect", "send_nonce"} => sock_out = <<>> /\ frames_read = 0
    /\ tpc = "read_nonce" =>
          /\ sock_out = <<NonceWritten>>
          /\ expected_recv_nonce = client_seed
          /\ client_seed \in ClientSeeds
          /\ frames_read = 0
    /\ tpc = "identify" =>
          /\ sock_out = <<NonceWritten>>
          /\ expected_recv_nonce = client_seed
          /\ send_nonce = server_seed
          /\ server_seed \in ServerSeeds
          /\ frames_read = 0
    /\ (tpc \in {"read", "dispatch", "reply"} \/ frames_read > 0) =>
          /\ Len(sock_out) >= 2
          /\ sock_out[1] = NonceWritten
          /\ sock_out[2] = IdentifyWritten
          /\ \A i \in 3..Len(sock_out) : sock_out[i].kind = "signed"
    /\ tpc \in {"read", "dispatch", "reply"} =>
          /\ expected_recv_nonce = U32AddK(sock_out[1].nonce, frames_read)
          /\ send_nonce = U32AddK(server_seed, Len(SignedOut))

\* a second connection, its handshake done with seeds other than those of
\* the connection that ended
C17_Witness ==
    /\ tpc = "read" /\ frames_read = 0
    /\ prev.ok /\ prev.frame.nonce = <<0, 8>>
    /\ expected_recv_nonce = <<65535, 65534>>
    /\ send_nonce = <<65535, 65535>>
    /\ sock_out = <<NonceWritten, IdentifyWritten>>

(***************************************************************************)
(* Claims about the command pipeline                                       *)
(***************************************************************************)
\* the commands that have left the channel, received or dropped
Gone == Len(sent) - Len(command_chan)

PACKET_LEN == 19

PACKET_HEADER == <<32, 130, 0>>
FRAME_HEADER == <<240, 8>>

ENCRYPTED_PACKET_LEN == PACKET_LEN + 5 + Len(FRAME_HEADER)

XOR_LUT ==
  <<
    183, 253, 147, 38, 54, 63, 247, 204, 52, 165, 229, 241, 113, 216, 49, 21,
    4, 199, 35, 195, 24, 150, 5, 154, 7, 18, 128, 226, 235, 39, 178, 117,
    208, 239, 170, 251, 67, 77, 51, 133, 69, 249, 2, 127, 80, 60, 159, 168,
    81, 163, 64, 143, 146, 157, 56, 245, 188, 182, 218, 33, 16, 255, 243, 210,
    224, 50, 58, 10, 73, 6, 36, 92, 194, 211, 172, 98, 145, 149, 228, 121,
    231, 200, 55, 109, 141, 213, 78, 169, 108, 86, 244, 234, 101, 122, 174, 8,
    225, 248, 152, 17, 105, 217, 142, 148, 155, 30, 135, 233, 206, 85, 40, 223,
    140, 161, 137, 13, 191, 230, 66, 104, 65, 153, 45, 15, 176, 84, 187, 22>>

SEED == 11091
INDEX == 0
DEVICE_TYPE == 1024

\* a ^ b on 4-bit values, tabulated
XorNibble ==
  <<<<0, 1, 2, 3, 4, 5, 6, 7, 8, 9, 10, 11, 12, 13, 14, 15>>,
    <<1, 0, 3, 2, 5, 4, 7, 6, 9, 8, 11, 10, 13, 12, 15, 14>>,
    <<2, 3, 0, 1, 6, 7, 4, 5, 10, 11, 8, 9, 14, 15, 12, 13>>,
    <<3, 2, 1, 0, 7, 6, 5, 4, 11, 10, 9, 8, 15, 14, 13, 12>>,
    <<4, 5, 6, 7, 0, 1, 2, 3, 12, 13, 14, 15, 8, 9, 10, 11>>,
    <<5, 4, 7, 6, 1, 0, 3, 2, 13, 12, 15, 14, 9, 8, 11, 10>>,
    <<6, 7, 4, 5, 2, 3, 0, 1, 14, 15, 12, 13, 10, 11, 8, 9>>,
    <<7, 6, 5, 4, 3, 2, 1, 0, 15, 14, 13, 12, 11, 10, 9, 8>>,
    <<8, 9, 10, 11, 12, 13, 14, 15, 0, 1, 2, 3, 4, 5, 6, 7>>,
    <<9, 8, 11, 10, 13, 12, 15, 14, 1, 0, 3, 2, 5, 4, 7, 6>>,
    <<10, 11, 8, 9, 14, 15, 12, 13, 2, 3, 0, 1, 6, 7, 4, 5>>,
    <<11, 10, 9, 8, 15, 14, 13, 12, 3, 2, 1, 0, 7, 6, 5, 4>>,
    <<12, 13, 14, 15, 8, 9, 10, 11, 4, 5, 6, 7, 0, 1, 2, 3>>,
    <<13, 12, 15, 14, 9, 8, 11, 10, 5, 4, 7, 6, 1, 0, 3, 2>>,
    <<14, 15, 12, 13, 10, 11, 8, 9, 6, 7, 4, 5, 2, 3, 0, 1>>,
    <<15, 14, 13, 12, 11, 10, 9, 8, 7, 6, 5, 4, 3, 2, 1, 0>>>>

\* a ^ b on u8
Xor(a, b) ==
    16 * XorNibble[(a \div 16) + 1][(b \div 16) + 1]
    + XorNibble[(a % 16) + 1][(b % 16) + 1]

\* a ^ b on u16
Xor16(a, b) == 256 * Xor(a \div 256, b \div 256) + Xor(a % 256, b % 256)

\* u16::to_le_bytes
U16ToLeBytes(v) == <<v % 256, v \div 256>>

\* u32::to_le_bytes, of a u32 held as <<high half, low half>>
U32ToLeBytes(u) == U16ToLeBytes(u[2]) \o U16ToLeBytes(u[1])

\* PacketData::new, with every field of the struct
PacketDataNew(tx_count, uid, cmd, args) ==
    [tx_count |-> tx_count, device_type |-> DEVICE_TYPE, uid |-> uid,
     index |-> INDEX, cmd |-> cmd,
     arg0 |-> args[1], arg1 |-> args[2], arg2 |-> args[3], seed |-> SEED]

\* PacketData::serialize: buf[12] and buf[13] stay 0
Serialize(self) ==
    PACKET_HEADER
    \o <<self.tx_count>>
    \o U16ToLeBytes(self.device_type)
    \o U32ToLeBytes(self.uid)
    \o <<self.index, self.cmd, 0, 0, self.arg0, self.arg1, self.arg2>>
    \o U16ToLeBytes(self.seed)

\* the salt of whiten: (PACKET_HEADER[1] & 0x3) << 5
WhitenSalt == (PACKET_HEADER[2] % 4) * 32

\* whiten, with a rule that is not its own inverse: the bytes are added
WhitenAdditive(buffer, seed) ==
    SubSeq([i \in 1..Len(buffer) |->
               (XOR_LUT[((seed + (i - 1) + 9) % 32) + WhitenSalt + 1]
                + seed + buffer[i]) % 256],
           1, Len(buffer))

\* whiten: result[i] = XOR_LUT[((seed + i + 9) & 0x1F) + salt] ^ seed ^ val
Whiten(buffer, seed) ==
    SubSeq([i \in 1..Len(buffer) |->
               Xor(Xor(XOR_LUT[((seed + (i - 1) + 9) % 32) + WhitenSalt + 1],
                       seed),
                   buffer[i])],
           1, Len(buffer))

(***************************************************************************)
(* Aes128::encrypt_block: AES-128 encryption of one block (FIPS 197), the  *)
(* state held column by column as the 16 bytes of the block                *)
(***************************************************************************)
SBox ==
  <<
    99, 124, 119, 123, 242, 107, 111, 197, 48, 1, 103, 43, 254, 215, 171, 118,
    202, 130, 201, 125, 250, 89, 71, 240, 173, 212, 162, 175, 156, 164, 114, 192,
    183, 253, 147, 38, 54, 63, 247, 204, 52, 165, 229, 241, 113, 216, 49, 21,
    4, 199, 35, 195, 24, 150, 5, 154, 7, 18, 128, 226, 235, 39, 178, 117,
    9, 131, 44, 26, 27, 110, 90, 160, 82, 59, 214, 179, 41, 227, 47, 132,
    83, 209, 0, 237, 32, 252, 177, 91, 106, 203, 190, 57, 74, 76, 88, 207,
    208, 239, 170, 251, 67, 77, 51, 133, 69, 249, 2, 127, 80, 60, 159, 168,
    81, 163, 64, 143, 146, 157, 56, 245, 188, 182, 218, 33, 16, 255, 243, 210,
    205, 12, 19, 236, 95, 151, 68, 23, 196, 167, 126, 61, 100, 93, 25, 115,
    96, 129, 79, 220, 34, 42, 144, 136, 70, 238, 184, 20, 222, 94, 11, 219,
    224, 50, 58, 10, 73, 6, 36, 92, 194, 211, 172, 98, 145, 149, 228, 121,
    231, 200, 55, 109, 141, 213, 78, 169, 108, 86, 244, 234, 101, 122, 174, 8,
    186, 120, 37, 46, 28, 166, 180, 198, 232, 221, 116, 31, 75, 189, 139, 138,
    112, 62, 181, 102, 72, 3, 246, 14, 97, 53, 87, 185, 134, 193, 29, 158,
    225, 248, 152, 17, 105, 217, 142, 148, 155, 30, 135, 233, 206, 85, 40, 223,
    140, 161, 137, 13, 191, 230, 66, 104, 65, 153, 45, 15, 176, 84, 187, 22>>

Rcon == <<1, 2, 4, 8, 16, 32, 64, 128, 27, 54>>

\* multiplication by x in GF(2^8)
XTime(a) == IF a < 128 THEN 2 * a ELSE Xor((2 * a) % 256, 27)

XorWord(v, w) ==
    <<Xor(v[1], w[1]), Xor(v[2], w[2]), Xor(v[3], w[3]), Xor(v[4], w[4])>>

\* the key schedule: w holds the i words made so far
RECURSIVE ExpandKey(_, _)
ExpandKey(w, i) ==
    IF Len(w) = 44 THEN w
    ELSE LET last == w[i]
             t == IF i % 4 = 0
                  THEN <<Xor(SBox[last[2] + 1], Rcon[i \div 4]),
                         SBox[last[3] + 1], SBox[last[4] + 1],
                         SBox[last[1] + 1]>>
                  ELSE last
         IN ExpandKey(Append(w, XorWord(w[i - 3], t)), i + 1)

KeySchedule(key) ==
    ExpandKey(<<SubSeq(key, 1, 4), SubSeq(key, 5, 8),
                SubSeq(key, 9, 12), SubSeq(key, 13, 16)>>, 4)

RoundKey(w, r) == w[4 * r + 1] \o w[4 * r + 2] \o w[4 * r + 3] \o w[4 * r + 4]

AddRoundKey(s, k) == SubSeq([i \in 1..16 |-> Xor(s[i], k[i])], 1, 16)

SubBytes(s) == SubSeq([i \in 1..16 |-> SBox[s[i] + 1]], 1, 16)

ShiftRows(s) ==
    SubSeq([i \in 1..16 |-> s[(((i - 1) + 4 * ((i - 1) % 4)) % 16) + 1]], 1, 16)

MixColumn(a) ==
    <<Xor(Xor(XTime(a[1]), Xor(XTime(a[2]), a[2])), Xor(a[3], a[4])),
      Xor(Xor(a[1], XTime(a[2])), Xor(Xor(XTime(a[3]), a[3]), a[4])),
      Xor(Xor(a[1], a[2]), Xor(XTime(a[3]), Xor(XTime(a[4]), a[4]))),
      Xor(Xor(Xor(XTime(a[1]), a[1]), a[2]), Xor(a[3], XTime(a[4])))>>

MixColumns(s) ==
    MixColumn(SubSeq(s, 1, 4)) \o MixColumn(SubSeq(s, 5, 8))
    \o MixColumn(SubSeq(s, 9, 12)) \o MixColumn(SubSeq(s, 13, 16))

\* rounds r..10 on the 16 bytes of the state s, under the schedule w
RECURSIVE AesRounds(_, _, _)
AesRounds(s, w, r) ==
    IF Len(s) = 16 /\ r < 10
    THEN AesRounds(AddRoundKey(MixColumns(ShiftRows(SubBytes(s))),
                               RoundKey(w, r)),
                   w, r + 1)
    ELSE AddRoundKey(ShiftRows(SubBytes(s)), RoundKey(w, 10))

Aes128EncryptBlock(key, block) ==
    LET w == KeySchedule(key)
    IN AesRounds(AddRoundKey(block, RoundKey(w, 0)), w, 1)

\* the 13 fixed bytes of the key of sign
SIGN_KEY_TAIL == <<13, 191, 230, 66, 104, 65, 153, 45, 15, 176, 84, 187, 22>>

\* sign(buffer, tx_count, seed)
SignValue(buffer, tx_count, seed) ==
    LET key == <<seed % 256, seed \div 256, tx_count>> \o SIGN_KEY_TAIL
        block == Aes128EncryptBlock(key, SubSeq(buffer, 1, 16))
        sign == block[1] + 256 * block[2]
    IN IF sign # 0 THEN sign ELSE 65535

\* Crc::<u16>::new(&CRC_16_XMODEM): polynomial 0x1021, most significant bit
\* first, no final xor
RECURSIVE CrcShift(_, _)
CrcShift(crc, n) ==
    IF n = 0 THEN crc
    ELSE IF crc >= 32768
         THEN CrcShift(Xor16((2 * crc) % 65536, 4129), n - 1)
         ELSE CrcShift(2 * crc, n - 1)

\* digest.update(bytes), from byte i on; a register is below 2^16
RECURSIVE CrcUpdate(_, _, _)
CrcUpdate(crc, bytes, i) ==
    IF i > Len(bytes) \/ crc >= 65536 THEN crc
    ELSE CrcUpdate(CrcShift(Xor16(crc, 256 * bytes[i]), 8), bytes, i + 1)

\* digest_with_initial(initial), update(bytes), finalize()
Crc16Xmodem(initial, bytes) == CrcUpdate(initial, bytes, 1)

\* encrypt: the seed it reads back from the packet
SeedOf(buf) == buf[PACKET_LEN - 1] + 256 * buf[PACKET_LEN]

\* encrypt's msg_buf, signed over the first 16 bytes of the packet
MsgBufSignFromStart(buf) ==
    LET head == SubSeq(buf, 1, PACKET_LEN - 2)
        sign == SignValue(SubSeq(head, 1, 16), head[4], SeedOf(buf))
    IN head \o U16ToLeBytes(sign) \o <<0>>

\* encrypt's msg_buf: the packet without its seed, the sign of msg_buf[1..17]
\* and a zero byte
MsgBuf(buf) ==
    LET head == SubSeq(buf, 1, PACKET_LEN - 2)
        sign == SignValue(SubSeq(head, 2, 17), head[4], SeedOf(buf))
    IN head \o U16ToLeBytes(sign) \o <<0>>

\* encrypt, whitening msg_buf[2..18) only
EncryptSixteen(decoded) ==
    LET seed == SeedOf(decoded)
        m == MsgBuf(decoded)
        body == SubSeq(m, 1, 2) \o Whiten(SubSeq(m, 3, 18), seed % 256)
                \o SubSeq(m, 19, 20) \o U16ToLeBytes(seed)
    IN FRAME_HEADER \o body
       \o U16ToLeBytes(Crc16Xmodem(65535 - seed, body))

\* encrypt: result[2..4] = msg_buf[..2], result[4..22] = whiten(msg_buf[2..]),
\* result[22..24] = seed, result[24..26] = crc of result[2..24]
Encrypt(decoded) ==
    LET seed == SeedOf(decoded)
        m == MsgBuf(decoded)
        body == SubSeq(m, 1, 2) \o Whiten(SubSeq(m, 3, PACKET_LEN + 1), seed % 256)
                \o U16ToLeBytes(seed)
    IN FRAME_HEADER \o body
       \o U16ToLeBytes(Crc16Xmodem(65535 - seed, body))

(***************************************************************************)
(* whiten, applied to a buffer and then to its own result                  *)
(***************************************************************************)
MaxWhitenings == 2

Ramp(n) == [i \in 1..n |-> (37 * i) % 256]

\* the buffers whiten is given: empty, every single byte, and buffers longer
\* than the 32 positions the index of the table cycles through
WhitenBuffers ==
    {<<>>} \cup {<<b>> : b \in 0..255}
    \cup {Ramp(PACKET_LEN - 1), Ramp(40), [i \in 1..(PACKET_LEN - 1) |-> 255]}

WhitenInit ==
    /\ CodecInit /\ MainInit /\ TransportInit /\ PipeInit
    /\ packet = NoPacket
    /\ serialized = <<>>
    /\ msg_buf = <<>>
    /\ encrypted = <<>>
    /\ wbuf \in [in : WhitenBuffers, seed : 0..255, out : {<<>>}, n : {0}]

WhitenBuffer ==
    /\ wbuf.n < MaxWhitenings
    /\ wbuf' = [wbuf EXCEPT
                  !.out = Whiten(IF wbuf.n = 0 THEN wbuf.in ELSE wbuf.out,
                                 wbuf.seed),
                  !.n = @ + 1]
    /\ UNCHANGED <<packet, serialized, msg_buf, encrypted>>
    /\ UNCHANGED <<codec_vars, main_vars, transport_vars, pipe_vars>>

SpecWhiten == WhitenInit /\ [][WhitenBuffer]_vars

(***************************************************************************)
(* send_packet_to_fan: packet.serialize(), then encrypt                    *)
(***************************************************************************)
TxCounts == {0, 16, 17, 255}

\* values of config.remote_uid, as <<high half, low half>>
RemoteUids == {<<0, 41904>>, <<4660, 22136>>, <<65535, 65535>>}

\* the commands and arguments from_command and send_keepalive_to_fan build
Commands ==
    {<<CmdPair, <<0, 0, 0>>>>, <<CmdLightOn, <<0, 0, 0>>>>,
     <<CmdLightOff, <<0, 0, 0>>>>,
     <<CmdLightBrightnessTemperature, <<0, 255, 0>>>>,
     <<CmdLightBrightnessTemperature, <<0, 128, 127>>>>,
     <<CmdDirection, <<1, 0, 0>>>>, <<CmdFanSpeed, <<32, 6, 0>>>>}

PacketPipeInit ==
    /\ CodecInit /\ MainInit /\ TransportInit /\ PipeInit
    /\ \E tx \in TxCounts, uid \in RemoteUids, c \in Commands :
          packet = PacketDataNew(tx, uid, c[1], c[2])
    /\ serialized = <<>>
    /\ msg_buf = <<>>
    /\ encrypted = <<>>
    /\ wbuf = [in |-> <<>>, seed |-> 0, out |-> <<>>, n |-> 0]

SerializePacket ==
    /\ serialized = <<>>
    /\ serialized' = Serialize(packet)
    /\ UNCHANGED <<packet, msg_buf, encrypted, wbuf>>
    /\ UNCHANGED <<codec_vars, main_vars, transport_vars, pipe_vars>>

EncryptPacket ==
    /\ serialized # <<>>
    /\ encrypted = <<>>
    /\ msg_buf' = MsgBuf(serialized)
    /\ encrypted' = Encrypt(serialized)
    /\ UNCHANGED <<packet, serialized, wbuf>>
    /\ UNCHANGED <<codec_vars, main_vars, transport_vars, pipe_vars>>

PacketPipeNext == SerializePacket \/ EncryptPacket

SpecPacket == PacketPipeInit /\ [][PacketPipeNext]_vars

(***************************************************************************)
(* Claims about the packet pipeline                                        *)
(***************************************************************************)

\* C18: for every byte buffer and every seed byte, whiten applied to the
\* result of whiten with the same seed gives back the original bytes.
C18_WhitenInvolution == wbuf.n = 2 => wbuf.out = wbuf.in

C18_Witness ==
    /\ wbuf.n = 2
    /\ Len(wbuf.in) = 40
    /\ wbuf.seed = SEED % 256
    /\ wbuf.out = wbuf.in

\* the low byte of the seed encrypt reads back from the packet
SeedLow == SeedOf(serialized) % 256

\* LUT[((seed_low_byte + i + 9) & 0x1F) + salt]
KeystreamByte(i, salt) == XOR_LUT[((SeedLow + i + 9) % 32) + salt + 1]

\* EncryptedPacket byte 4 + i is message byte 2 + i, XOR keystream byte i,
\* XOR the low byte of the seed
WhitenedAt(i, salt) ==
    encrypted[5 + i] = Xor(Xor(msg_buf[3 + i], KeystreamByte(i, salt)), SeedLow)

\* C19, as stated: the salt comes from the second byte of the 2-byte frame
\* marker, the 16 message bytes [2..18) are whitened and followed by the
\* seed, and message bytes [0..2) are copied unwhitened.
C19_AsStated ==
    encrypted # <<>> =>
        /\ encrypted[3] = msg_buf[1] /\ encrypted[4] = msg_buf[2]
        /\ \A i \in 0..15 : WhitenedAt(i, (FRAME_HEADER[2] % 4) * 32)
        /\ SubSeq(encrypted, 21, 22) = U16ToLeBytes(SeedOf(serialized))

\* C19: the keystream byte for index i is LUT[((seed_low_byte + i + 9) & 0x1F)
\* + salt] with salt = (second byte of the 3-byte packet header & 0x3) << 5,
\* the output byte is input XOR keystream byte XOR seed_low_byte, exactly the
\* 18 bytes [2..20) of the 20-byte message are whitened, into bytes [4..22) of
\* the EncryptedPacket, message bytes [0..2) are copied unwhitened into bytes
\* [2..4), and the seed follows the whitened bytes.
C19_Whitening ==
    encrypted # <<>> =>
        /\ Len(msg_buf) = PACKET_LEN + 1
        /\ Len(encrypted) = ENCRYPTED_PACKET_LEN
        /\ SubSeq(encrypted, 1, 2) = FRAME_HEADER
        /\ encrypted[3] = msg_buf[1] /\ encrypted[4] = msg_buf[2]
        /\ \A i \in 0..17 : WhitenedAt(i, (PACKET_HEADER[2] % 4) * 32)
        /\ SubSeq(encrypted, 23, 24) = U16ToLeBytes(SeedOf(serialized))

C19_Witness ==
    /\ encrypted # <<>>
    /\ packet.cmd = CmdLightBrightnessTemperature
    /\ packet.tx_count = 255
    /\ \A i \in 0..17 : encrypted[5 + i] # msg_buf[3 + i]

\* the first two bytes, little-endian, of the AES-128 encryption of the 16
\* bytes of the serialized packet from index first on, under the key
\* [seed_lo, seed_hi, tx_count, 13 fixed bytes]
RawSign(first) ==
    LET key == <<serialized[18], serialized[19], packet.tx_count>>
               \o SIGN_KEY_TAIL
        block == Aes128EncryptBlock(key, SubSeq(serialized, first + 1, first + 16))
    IN block[1] + 256 * block[2]

\* the message carries the sign value sign in place of the seed, low byte first
SignedWith(sign) ==
    /\ SubSeq(msg_buf, 1, 17) = SubSeq(serialized, 1, 17)
    /\ msg_buf[18] = sign % 256
    /\ msg_buf[19] = sign \div 256
    /\ \A i \in 15..16 : WhitenedAt(i, (PACKET_HEADER[2] % 4) * 32)

\* C20, as stated: the sign value is computed from bytes 0..15 of the
\* serialized packet, a zero result replaced by 0xFFFF, and overwrites the
\* packet's last two bytes little-endian before whitening.
C20_AsStated ==
    encrypted # <<>> =>
        SignedWith(IF RawSign(0) = 0 THEN 65535 ELSE RawSign(0))

\* C20: the sign value is computed from bytes 1..16 of the serialized packet
\* under the key [seed_lo, seed_hi, tx_count, 13 fixed bytes]; it is never 0 (a
\* zero result is replaced by 0xFFFF), and it overwrites the packet's last two
\* bytes in little-endian order before whitening.
C20_SignValue ==
    encrypted # <<>> =>
        /\ SignedWith(IF RawSign(1) = 0 THEN 65535 ELSE RawSign(1))
        /\ msg_buf[18] + 256 * msg_buf[19] # 0

C20_Witness ==
    /\ encrypted # <<>>
    /\ RawSign(1) = 0
    /\ msg_buf[18] = 255 /\ msg_buf[19] = 255

(***************************************************************************)
(* Claims about the cache across updates, keepalives and transmissions     *)
(***************************************************************************)

\* C21: from the bootstrap cache, after any sequence of updates and
\* keepalives the cached power equals (cached brightness # 0), and a LightOn
\* or LightOff command is never built when the last such command built was
\* the same one.
C21_PowerTracksBrightness ==
    /\ [](fan_state.power = (fan_state.brightness # 0))
    /\ [][\A i \in 1..Len(emitted') :
             (built' # built /\ emitted'[i].cmd \in LightCmds)
                 => emitted'[i].cmd # last_light]_vars

C21_Witness ==
    /\ Len(emitted) = 2
    /\ emitted[1].cmd = CmdLightOn
    /\ last_light = CmdLightOn
    /\ ~prev_state.power /\ prev_state.brightness = 0
    /\ fan_state.power /\ fan_state.brightness # 0

\* how far the sequence number b is after a, modulo 256
Ahead(a, b) == (b + U8 - a) % U8

\* task t's last transmission failed before its packet's advertising was
\* enabled; the packet is still Head(pkts[t])
FailedUnsent(t) == res[t] = "err" /\ adv[t] <= EnableStep

\* C22: the cached tx_count is (16 + number of commands built) mod 256 in
\* every state, whether or not a transmission succeeded; while a task
\* transmits, the cache is already past the numbers of all its packets; and
\* the number of a packet whose transmission failed is never put on air, so
\* the numbers on air before and after it are at least 2 apart.
C22_TxCountAdvancedAtBuild ==
    /\ fan_state.tx_count = (InitTxCount + built) % U8
    /\ \A t \in Tasks :
          pc[t] = "adv" =>
              \A i \in 1..Len(pkts[t]) :
                  pkts[t][i].tx_count
                      = (fan_state.tx_count + U8 - Len(pkts[t]) + i - 1) % U8
    /\ \A t \in Tasks :
          FailedUnsent(t) =>
              LET n == Head(pkts[t]).tx_count
              IN /\ \A a \in OnAir : a.task # "none" => a.tx # n
                 /\ Ahead(n, fan_state.tx_count) \in 1..127
                 /\ (/\ air[1].task # "none"
                     /\ Ahead(air[1].tx, n) \in 1..127
                     /\ Ahead(n, air[2].tx) \in 1..127)
                        => Ahead(air[1].tx, air[2].tx) >= 2

C22_Witness ==
    /\ FailedUnsent(Keepalive)
    /\ Head(pkts[Keepalive]).tx_count = InitTxCount + 1
    /\ air[1].task # "none" /\ air[1].tx = InitTxCount
    /\ air[2].task = Consumer /\ air[2].tx = InitTxCount + 2
    /\ fan_state.tx_count = InitTxCount + 3

\* C23: a radio send failure in a keepalive is not fatal: the keepalive task
\* releases the mutex and goes back to its sleep, and the process keeps
\* running; whenever a task leaves a transmission, failed or not, the mutex
\* is free; so a task that waits for the mutex gets it, unless main has
\* returned, and a transmission that has begun comes to its end.
C23_MutexAlwaysReleased ==
    /\ [][(pc[Keepalive] = "release" /\ pc'[Keepalive] # "release")
             => (pc'[Keepalive] = "sleep" /\ proc' = "running")]_vars
    /\ [][\A t \in Tasks :
             (pc[t] \in Critical /\ pc'[t] \notin Critical)
                 => mutex' = "free"]_vars
    /\ [](\A t \in Tasks : mutex = t => pc[t] \in Critical)
    /\ \A t \in Tasks :
          /\ (pc[t] = "lock") ~> (mutex = t \/ proc = "exited")
          /\ (mutex = t) ~> (mutex # t \/ proc = "exited")

\* the consumer holds the mutex after a keepalive whose transmission failed
C23_Witness ==
    /\ res[Keepalive] = "err"
    /\ pc[Keepalive] = "sleep"
    /\ proc = "running"
    /\ mutex = Consumer
    /\ pc[Consumer] = "adv"

=============================================================================
